---- MODULE Spec2Model ----
(***************************************************************************)
(* Companion-file discovery of VLC: the sidecar subtitle detector          *)
(* (src/input/subtitles.c, subtitles_Detect) and the directory-listing     *)
(* demuxer (modules/demux/playlist/directory.c, Demux / attach_slaves).    *)
(*                                                                         *)
(* C strings are sequences of one-character strings, without the closing   *)
(* NUL.  A NULL pointer returned by strrchr / strstr is the index 0.       *)
(***************************************************************************)
EXTENDS Integers, Sequences, FiniteSets, TLC

VARIABLES
    fs,     \* the file system: directory -> [exists, entries]
    det,    \* the calls of subtitles_Detect: call -> its record
    dmx,    \* the call of Demux: its record
    trm     \* a caller of strcpy_trim: its input, its output, the output fed back

vars == <<fs, det, dmx, trm>>

(***************************************************************************)
(* Bounds of the model.                                                    *)
(***************************************************************************)
\* longest string handed to strcpy_trim by the normalizer specification
MaxTrimLen == 3

(***************************************************************************)
(* <ctype.h> in the C locale, over the characters the model uses.          *)
(***************************************************************************)
UpperChars == <<"A","B","C","D","E","F","G","H","I","J","K","L","M",
                "N","O","P","Q","R","S","T","U","V","W","X","Y","Z">>

LowerChars == <<"a","b","c","d","e","f","g","h","i","j","k","l","m",
                "n","o","p","q","r","s","t","u","v","w","x","y","z">>

DigitChars == <<"0","1","2","3","4","5","6","7","8","9">>

Range(f) == { f[i] : i \in DOMAIN f }

isalnum(c) == c \in Range(UpperChars) \cup Range(LowerChars) \cup Range(DigitChars)

tolower(c) ==
    IF c \in Range(UpperChars)
    THEN LowerChars[CHOOSE i \in DOMAIN UpperChars : UpperChars[i] = c]
    ELSE c

\* the loop  while( (c = *d) != '\0' ) { *d = tolower(c); d++; }
LowerStr(s) == [ i \in DOMAIN s |-> tolower(s[i]) ]

\* s + (i - 1): the string that starts at the i-th character of s
From(s, i) == SubSeq(s, i, Len(s))

\* the first n characters of s (all of s when it is shorter)
Take(s, n) == SubSeq(s, 1, IF n < Len(s) THEN n ELSE Len(s))

\* all strings over the alphabet A of length at most n
RECURSIVE StringsUpTo(_, _)
StringsUpTo(A, n) ==
    IF n = 0 THEN { <<>> }
    ELSE LET S == StringsUpTo(A, n - 1)
         IN  S \cup { Append(s, c) : s \in { t \in S : Len(t) = n - 1 }, c \in A }

(***************************************************************************)
(* <string.h>                                                              *)
(***************************************************************************)
\* index of the last occurrence of c in s, 0 (NULL) when there is none
strrchr(s, c) ==
    IF \E i \in DOMAIN s : s[i] = c
    THEN CHOOSE i \in DOMAIN s : s[i] = c /\ \A k \in DOMAIN s : s[k] = c => k <= i
    ELSE 0

\* needle n occurs in h at index i
OccursAt(h, n, i) == i + Len(n) - 1 <= Len(h) /\ SubSeq(h, i, i + Len(n) - 1) = n

\* index of the first occurrence of n in h, 0 (NULL) when there is none
strstr(h, n) ==
    IF \E i \in 1..(Len(h) + 1) : OccursAt(h, n, i)
    THEN CHOOSE i \in 1..(Len(h) + 1) :
            OccursAt(h, n, i) /\ \A k \in 1..(Len(h) + 1) : OccursAt(h, n, k) => i <= k
    ELSE 0

\* 0 when equal; only equality is used by the callers modelled with it
strcmp(a, b) == IF a = b THEN 0 ELSE 1

strcasecmp(a, b) == IF LowerStr(a) = LowerStr(b) THEN 0 ELSE 1

\* compares at most n characters and stops at the first NUL
strncasecmp(a, b, n) == IF LowerStr(Take(a, n)) = LowerStr(Take(b, n)) THEN 0 ELSE 1

(***************************************************************************)
(* subtitles.c: the name normalizer.                                       *)
(***************************************************************************)
\* while( ((c = *s) != '\0') && !isalnum(c) ) s++;   from index i
RECURSIVE SkipNonAlnum(_, _)
SkipNonAlnum(s, i) ==
    IF i <= Len(s) /\ ~isalnum(s[i]) THEN SkipNonAlnum(s, i + 1) ELSE i

\* while( ((c = *s) != '\0') && isalnum(c) ) s++;    from index i
RECURSIVE SkipAlnum(_, _)
SkipAlnum(s, i) ==
    IF i <= Len(s) /\ isalnum(s[i]) THEN SkipAlnum(s, i + 1) ELSE i

\* the for(;;) loop of strcpy_trim with s at index i and d written so far
RECURSIVE TrimLoop(_, _, _)
TrimLoop(s, i, d) ==
    LET e  == SkipAlnum(s, i)                          \* copy word
        d1 == d \o LowerStr(SubSeq(s, i, e - 1))
    IN  IF e > Len(s) THEN d1                          \* if( *s == 0 ) break;
        ELSE LET n == SkipNonAlnum(s, e)               \* trim excess whitespace
             IN  IF n > Len(s) THEN d1                 \* if( *s == 0 ) break;
                 ELSE TrimLoop(s, n, Append(d1, " "))  \* *d++ = ' ';

\* MUTANT of strcpy_trim: the leading skip is a do-while, it always eats one
\* character before testing
strcpy_trim_SkipsOne(s) == TrimLoop(s, SkipNonAlnum(s, 2), <<>>)

\* MUTANT of strcpy_trim: the separator is written before the end test
strcpy_trim_TrailingSpace(s) ==
    LET d == TrimLoop(s, SkipNonAlnum(s, 1), <<>>)
    IN  IF Len(s) > 0 /\ ~isalnum(s[Len(s)]) /\ d # <<>> THEN Append(d, " ") ELSE d

strcpy_trim(s) == TrimLoop(s, SkipNonAlnum(s, 1), <<>>)

(***************************************************************************)
(* subtitles.c: the other string helpers.                                  *)
(***************************************************************************)
\* the part before the last '.', lower-cased; the whole string, as it is, when
\* it has no '.'
strcpy_strip_ext(s) ==
    LET tmp == strrchr(s, ".")
    IN  IF tmp = 0 THEN s ELSE LowerStr(SubSeq(s, 1, tmp - 1))

\* the part after the last '.', "" when there is none
strcpy_get_ext(s) ==
    LET tmp == strrchr(s, ".")
    IN  IF tmp = 0 THEN <<>> ELSE From(s, tmp + 1)

\* 1 when s holds no alphanumeric character
whiteonly(s) == IF \E i \in DOMAIN s : isalnum(s[i]) THEN 0 ELSE 1

\* the table of subtitles.c, closed by its "" entry
sub_exts ==
    << <<"i","d","x">>, <<"s","u","b">>, <<"s","r","t">>,
       <<"s","s","a">>, <<"a","s","s">>, <<"s","m","i">>,
       <<"u","t","f">>, <<"u","t","f","8">>, <<"u","t","f","-","8">>,
       <<"r","t">>, <<"a","q","t">>, <<"t","x","t">>,
       <<"u","s","f">>, <<"j","s","s">>, <<"c","d","g">>,
       <<"p","s","b">>, <<"m","p","s","u","b">>, <<"m","p","l","2">>,
       <<"p","j","s">>, <<"d","k","s">>, <<"s","t","l">>,
       <<"v","t","t">>, <<"s","b","v">>, <<>> >>

\* for( int i = 0; sub_exts[i][0]; i++ ) if( strcasecmp( sub_exts[i], tmp ) == 0 )
RECURSIVE FilterLoop(_, _)
FilterLoop(tmp, i) ==
    IF sub_exts[i] = <<>> THEN 0
    ELSE IF strcasecmp(sub_exts[i], tmp) = 0 THEN 1
    ELSE FilterLoop(tmp, i + 1)

subtitles_Filter(psz_dir_content) ==
    LET tmp == strrchr(psz_dir_content, ".")
    IN  IF tmp = 0 THEN 0 ELSE FilterLoop(From(psz_dir_content, tmp + 1), 1)

(***************************************************************************)
(* Companion priorities (enum slave_priority of vlc_input_item.h) and      *)
(* return codes.                                                           *)
(***************************************************************************)
SLAVE_PRIORITY_NONE == 0

SLAVE_PRIORITY_MATCH_NONE == 1

SLAVE_PRIORITY_MATCH_RIGHT == 2

SLAVE_PRIORITY_MATCH_LEFT == 3

SLAVE_PRIORITY_MATCH_ALL == 4

\* a NULL char*: a one-element sequence that is no string of characters
NULL == << "NULL" >>

DIR_SEP == << "/" >>

(***************************************************************************)
(* subtitles.c: paths_to_list.                                             *)
(***************************************************************************)
\* index of the first occurrence of c in s, 0 (NULL) when there is none
strchr(s, c) ==
    IF \E i \in DOMAIN s : s[i] = c
    THEN CHOOSE i \in DOMAIN s : s[i] = c /\ \A k \in DOMAIN s : s[k] = c => i <= k
    ELSE 0

\* while( *psz_parser == ' ' ) psz_parser++;
RECURSIVE SkipSpaces(_)
SkipSpaces(s) == IF s # <<>> /\ s[1] = " " THEN SkipSpaces(Tail(s)) ELSE s

\* the for loop of paths_to_list over what is left of psz_path; fail counts
\* the calls of asprintf down to the one that fails (0: none fails).  On the
\* failure the loop is left and the slot keeps the NULL calloc wrote, so the
\* list ends before the entry.
RECURSIVE PathsLoop(_, _, _)
PathsLoop(psz_dir, psz_parser, fail) ==
    IF psz_parser = <<>> THEN <<>>
    ELSE LET comma      == strchr(psz_parser, ",")
             psz_subdir == IF comma = 0 THEN psz_parser
                           ELSE SubSeq(psz_parser, 1, comma - 1)
             rest       == IF comma = 0 THEN <<>>
                           ELSE SkipSpaces(From(psz_parser, comma + 1))
         IN  IF psz_subdir = <<>> THEN PathsLoop(psz_dir, rest, fail)
             ELSE IF fail = 1 THEN <<>>
             ELSE << (IF psz_subdir[1] = "." THEN psz_dir ELSE <<>>) \o psz_subdir >>
                    \o PathsLoop(psz_dir, rest, IF fail = 0 THEN 0 ELSE fail - 1)

\* oom: 0 when every allocation is served, 1 when calloc fails, k + 1 when the
\* k-th asprintf fails
paths_to_list(psz_dir, psz_path, oom) ==
    IF psz_dir = NULL \/ psz_path = NULL THEN NULL
    ELSE IF oom = 1 THEN NULL
    ELSE PathsLoop(psz_dir, psz_path, IF oom = 0 THEN 0 ELSE oom - 1)

(***************************************************************************)
(* subtitles.c: the candidate list.                                        *)
(***************************************************************************)
\* a subtitle* that is NULL (subtitle_New failed and the pointer was appended)
NullSub ==
    [ null |-> TRUE, psz_path |-> <<>>, i_priority |-> 0, b_rejected |-> FALSE ]

\* oom: malloc or strdup fails
subtitle_New(psz_path, i_priority, oom) ==
    IF psz_path = NULL \/ oom THEN NullSub
    ELSE [ null |-> FALSE, psz_path |-> psz_path, i_priority |-> i_priority,
           b_rejected |-> FALSE ]

subtitle_list_AppendItem(p_list, p_subtitle) == Append(p_list, p_subtitle)

(***************************************************************************)
(* subtitles_Detect: the scoring step (lines 351-383).  j is the index of  *)
(* the directory being read, -1 for the directory of the primary file.     *)
(***************************************************************************)
\* DetectPrio with the exact-match test on the candidate's name before
\* normalization
DetectPrio_RawCompare(psz_name, f_fname_trim, j) ==
    LET tmp_fname_noext == strcpy_strip_ext(psz_name)
        tmp_fname_trim  == strcpy_trim(tmp_fname_noext)
        tmp             == strstr(tmp_fname_trim, f_fname_trim)
    IN  IF strcmp(tmp_fname_noext, f_fname_trim) = 0 THEN SLAVE_PRIORITY_MATCH_ALL
        ELSE IF tmp # 0
        THEN IF whiteonly(From(tmp_fname_trim, tmp + Len(f_fname_trim))) = 1
             THEN SLAVE_PRIORITY_MATCH_RIGHT
             ELSE SLAVE_PRIORITY_MATCH_LEFT
        ELSE IF j = -1 THEN SLAVE_PRIORITY_MATCH_NONE
        ELSE SLAVE_PRIORITY_NONE

\* DetectPrio with the name looked for at the start of the candidate's name only
DetectPrio_PrefixOnly(psz_name, f_fname_trim, j) ==
    LET tmp_fname_trim == strcpy_trim(strcpy_strip_ext(psz_name))
        tmp            == IF OccursAt(tmp_fname_trim, f_fname_trim, 1) THEN 1 ELSE 0
    IN  IF strcmp(tmp_fname_trim, f_fname_trim) = 0 THEN SLAVE_PRIORITY_MATCH_ALL
        ELSE IF tmp # 0
        THEN IF whiteonly(From(tmp_fname_trim, tmp + Len(f_fname_trim))) = 1
             THEN SLAVE_PRIORITY_MATCH_RIGHT
             ELSE SLAVE_PRIORITY_MATCH_LEFT
        ELSE IF j = -1 THEN SLAVE_PRIORITY_MATCH_NONE
        ELSE SLAVE_PRIORITY_NONE

\* DetectPrio with the two branches of the whiteonly test swapped
DetectPrio_Swapped(psz_name, f_fname_trim, j) ==
    LET tmp_fname_trim == strcpy_trim(strcpy_strip_ext(psz_name))
        tmp            == strstr(tmp_fname_trim, f_fname_trim)
    IN  IF strcmp(tmp_fname_trim, f_fname_trim) = 0 THEN SLAVE_PRIORITY_MATCH_ALL
        ELSE IF tmp # 0
        THEN IF whiteonly(From(tmp_fname_trim, tmp + Len(f_fname_trim))) = 1
             THEN SLAVE_PRIORITY_MATCH_LEFT
             ELSE SLAVE_PRIORITY_MATCH_RIGHT
        ELSE IF j = -1 THEN SLAVE_PRIORITY_MATCH_NONE
        ELSE SLAVE_PRIORITY_NONE

\* DetectPrio without the test of j: MATCH_NONE in every directory
DetectPrio_NoneEverywhere(psz_name, f_fname_trim, j) ==
    LET tmp_fname_trim == strcpy_trim(strcpy_strip_ext(psz_name))
        tmp            == strstr(tmp_fname_trim, f_fname_trim)
    IN  IF strcmp(tmp_fname_trim, f_fname_trim) = 0 THEN SLAVE_PRIORITY_MATCH_ALL
        ELSE IF tmp # 0
        THEN IF whiteonly(From(tmp_fname_trim, tmp + Len(f_fname_trim))) = 1
             THEN SLAVE_PRIORITY_MATCH_RIGHT
             ELSE SLAVE_PRIORITY_MATCH_LEFT
        ELSE SLAVE_PRIORITY_MATCH_NONE

DetectPrio(psz_name, f_fname_trim, j) ==
    LET tmp_fname_noext == strcpy_strip_ext(psz_name)
        tmp_fname_trim  == strcpy_trim(tmp_fname_noext)
        tmp             == strstr(tmp_fname_trim, f_fname_trim)
    IN  IF strcmp(tmp_fname_trim, f_fname_trim) = 0
        THEN SLAVE_PRIORITY_MATCH_ALL          \* matches the movie name exactly
        ELSE IF tmp # 0                        \* contains the movie name
        THEN IF whiteonly(From(tmp_fname_trim, tmp + Len(f_fname_trim))) = 1
             THEN SLAVE_PRIORITY_MATCH_RIGHT   \* chars in front of the movie name
             ELSE SLAVE_PRIORITY_MATCH_LEFT    \* chars after the movie name
        ELSE IF j = -1
        THEN SLAVE_PRIORITY_MATCH_NONE         \* prefer files in f_dir over subdirs
        ELSE SLAVE_PRIORITY_NONE

(***************************************************************************)
(* The file system subtitles_Detect reads.  fs maps a directory to whether *)
(* it can be opened and to its entries; an entry is a name and whether     *)
(* vlc_stat finds a regular file there.                                    *)
(***************************************************************************)
s_d == << "d", "/" >>

\* the directories of the model: the primary file's, a sub-directory of it
\* named s, and an absolute one named /x
DirIds == { "D", "S", "X" }

\* the directory a path names, "NONE" when it names none
Resolve(psz_dir) ==
    CASE psz_dir \in { s_d, s_d \o <<".">>, s_d \o <<".", "/">> }  -> "D"
      [] psz_dir = s_d \o <<".", "/", "s">>                          -> "S"
      [] psz_dir = <<"/", "x">>                                      -> "X"
      [] OTHER                                                       -> "NONE"

\* DIR* or NULL
vlc_opendir(psz_dir) ==
    LET id == Resolve(psz_dir)
    IN  IF id # "NONE" /\ fs[id].exists THEN id ELSE "NULL"

(***************************************************************************)
(* subtitles_Detect as the steps of one call.  A call's record r holds its *)
(* arguments (i_fuzzy, psz_fname, psz_path, p_result), its locals and its  *)
(* position pc.  env holds what the environment decides at a step: oom1    *)
(* and oom2 (the step's first and second allocation fail), oom3 (which     *)
(* allocation of paths_to_list fails), pick (the entry vlc_readdir returns *)
(* next), ub (what a read past the end of the array does).                 *)
(***************************************************************************)
Ret(r, code) ==
    [ r EXCEPT !.pc = "done", !.ret = code, !.enomem = @ \/ code = "VLC_ENOMEM" ]

\* DetectEntryStep without the return at a threshold of 0
DetectEntryStep_NoFuzzyReturn(r, env) ==
    IF r.psz_fname = NULL THEN Ret(r, "VLC_EGENERIC")
    ELSE IF env.oom1 THEN Ret(r, "VLC_ENOMEM")
    ELSE LET sep == strrchr(r.psz_fname, "/")
         IN  IF sep = 0 THEN Ret(r, "VLC_EGENERIC")
             ELSE IF env.oom2 THEN Ret(r, "VLC_ENOMEM")
             ELSE LET f_fname == From(r.psz_fname, sep + 1)
                      f_dir   == Take(r.psz_fname, sep)
                  IN  [ r EXCEPT !.pc = "opendir",
                                 !.f_dir = f_dir,
                                 !.f_fname_trim = strcpy_trim(strcpy_strip_ext(f_fname)),
                                 !.subdirs = paths_to_list(f_dir, r.psz_path, env.oom3),
                                 !.enomem = env.oom3 # 0,
                                 !.j = -1 ]

\* lines 279-327
DetectEntryStep(r, env) ==
    IF r.i_fuzzy = 0 THEN Ret(r, "VLC_EGENERIC")
    ELSE IF r.psz_fname = NULL THEN Ret(r, "VLC_EGENERIC")
    ELSE IF env.oom1 THEN Ret(r, "VLC_ENOMEM")             \* strdup( psz_fname )
    ELSE LET sep == strrchr(r.psz_fname, "/")
         IN  IF sep = 0 THEN Ret(r, "VLC_EGENERIC")
             ELSE IF env.oom2 THEN Ret(r, "VLC_ENOMEM")    \* the two malloc
             ELSE LET f_fname == From(r.psz_fname, sep + 1)
                      f_dir   == Take(r.psz_fname, sep)
                  IN  [ r EXCEPT !.pc = "opendir",
                                 !.f_dir = f_dir,
                                 !.f_fname_trim = strcpy_trim(strcpy_strip_ext(f_fname)),
                                 !.subdirs = paths_to_list(f_dir, r.psz_path, env.oom3),
                                 !.enomem = env.oom3 # 0,
                                 !.j = -1 ]

\* DetectOpenStep leaving the loop over the directories at the first one
\* that cannot be opened
DetectOpenStep_StopsAtFailure(r) ==
    IF r.j >= 0 /\ (r.subdirs = NULL \/ r.j >= Len(r.subdirs))
    THEN [ r EXCEPT !.pc = "conflict", !.i = 0, !.collected = r.p_result ]
    ELSE LET psz_dir == IF r.j < 0 THEN r.f_dir ELSE r.subdirs[r.j + 1]
         IN  IF r.j >= 0 /\ strcmp(psz_dir, r.f_dir) = 0
             THEN [ r EXCEPT !.j = r.j + 1 ]
             ELSE LET dir == vlc_opendir(psz_dir)
                  IN  IF dir = "NULL"
                      THEN [ r EXCEPT !.pc = "conflict", !.i = 0, !.collected = r.p_result ]
                      ELSE [ r EXCEPT !.pc = "readdir",
                                      !.psz_dir = psz_dir,
                                      !.unread = fs[dir].entries,
                                      !.opened = Append(r.opened, dir) ]

\* lines 328-337: the head of the loop over the directories
DetectOpenStep(r) ==
    IF r.j >= 0 /\ (r.subdirs = NULL \/ r.j >= Len(r.subdirs))
    THEN [ r EXCEPT !.pc = "conflict", !.i = 0, !.collected = r.p_result ]
    ELSE LET psz_dir == IF r.j < 0 THEN r.f_dir ELSE r.subdirs[r.j + 1]
         IN  IF r.j >= 0 /\ strcmp(psz_dir, r.f_dir) = 0
             THEN [ r EXCEPT !.j = r.j + 1 ]
             ELSE LET dir == vlc_opendir(psz_dir)
                  IN  IF dir = "NULL"
                      THEN [ r EXCEPT !.j = r.j + 1 ]
                      ELSE [ r EXCEPT !.pc = "readdir",
                                      !.psz_dir = psz_dir,
                                      !.unread = fs[dir].entries,
                                      !.opened = Append(r.opened, dir) ]

\* DetectReadStep with the test against the threshold turned round
DetectReadStep_BelowThreshold(r, env) ==
    IF r.unread = {}
    THEN [ r EXCEPT !.pc = "opendir", !.j = r.j + 1 ]
    ELSE LET e        == env.pick
             psz_name == e.name
             r1       == [ r EXCEPT !.unread = r.unread \ { e },
                                    !.n_reads = r.n_reads + 1 ]
         IN  IF psz_name[1] = "." \/ subtitles_Filter(psz_name) = 0
             THEN r1
             ELSE LET i_prio == DetectPrio(psz_name, r.f_fname_trim, r.j)
                      r2     == [ r1 EXCEPT !.scored =
                                     [ name |-> psz_name, prio |-> i_prio, j |-> r.j ] ]
                      path   == r.psz_dir \o DIR_SEP \o psz_name
                  IN  IF i_prio <= r.i_fuzzy
                      THEN IF env.oom1 THEN [ r2 EXCEPT !.enomem = TRUE ]
                           ELSE IF strcmp(path, r.psz_fname) # 0 /\ e.reg
                           THEN [ r2 EXCEPT !.p_result =
                                    subtitle_list_AppendItem(r.p_result,
                                        subtitle_New(path, i_prio, env.oom2)),
                                            !.enomem = @ \/ env.oom2 ]
                           ELSE r2
                      ELSE r2

\* lines 342-405: one turn of the loop over the entries of a directory.  enomem
\* records that an allocation of the call has failed.
DetectReadStep(r, env) ==
    IF r.unread = {}
    THEN [ r EXCEPT !.pc = "opendir", !.j = r.j + 1 ]       \* closedir
    ELSE LET e        == env.pick
             psz_name == e.name
             r1       == [ r EXCEPT !.unread = r.unread \ { e },
                                    !.n_reads = r.n_reads + 1 ]
         IN  IF psz_name[1] = "." \/ subtitles_Filter(psz_name) = 0
             THEN r1
             ELSE LET i_prio == DetectPrio(psz_name, r.f_fname_trim, r.j)
                      r2     == [ r1 EXCEPT !.scored =
                                     [ name |-> psz_name, prio |-> i_prio, j |-> r.j ] ]
                      path   == r.psz_dir \o DIR_SEP \o psz_name
                  IN  IF i_prio >= r.i_fuzzy
                      THEN IF env.oom1                        \* asprintf < 0
                           THEN [ r2 EXCEPT !.enomem = TRUE ]
                           ELSE IF strcmp(path, r.psz_fname) # 0 /\ e.reg
                           THEN [ r2 EXCEPT !.p_result =
                                    subtitle_list_AppendItem(r.p_result,
                                        subtitle_New(path, i_prio, env.oom2)),
                                            !.enomem = @ \/ env.oom2 ]
                           ELSE r2
                      ELSE r2

s_sub == << "s", "u", "b" >>

s_idx == << "i", "d", "x" >>

s_cdg == << "c", "d", "g" >>

\* lines 435-455: the inner loop of the .sub rule from index j (0-based).  Its
\* condition is i < p_result->i_subtitles, which holds throughout, so the loop
\* ends only at an .idx ("found"); reading pp_subtitles[j] with j at the length
\* of the array is out of bounds ("oob"), and a NULL element is dereferenced
\* ("null").
RECURSIVE InnerScan(_, _, _)
InnerScan(pp_subtitles, p_sub, j) ==
    IF j >= Len(pp_subtitles) THEN [ kind |-> "oob", j |-> j ]
    ELSE LET p_sub_inner == pp_subtitles[j + 1]
         IN  IF p_sub_inner.null THEN [ kind |-> "null", j |-> j ]
             ELSE IF strncasecmp(p_sub.psz_path, p_sub_inner.psz_path,
                                 Len(p_sub.psz_path) - 3) # 0
             THEN InnerScan(pp_subtitles, p_sub, j + 1)
             ELSE LET psz_ext_inner == strrchr(p_sub_inner.psz_path, ".")
                  IN  IF psz_ext_inner = 0
                      THEN InnerScan(pp_subtitles, p_sub, j + 1)
                      ELSE IF strcasecmp(From(p_sub_inner.psz_path, psz_ext_inner + 1),
                                         s_idx) = 0
                      THEN [ kind |-> "found", j |-> j ]
                      ELSE InnerScan(pp_subtitles, p_sub, j + 1)

Reject(r) == [ r EXCEPT !.p_result[r.i + 1].b_rejected = TRUE, !.i = r.i + 1 ]

\* MUTANT of DetectConflictStep: the .cdg rule rejects at MATCH_ALL too
DetectConflictStep_CdgAlways(r, env) ==
    IF r.i >= Len(r.p_result) THEN Ret(r, "VLC_SUCCESS")
    ELSE LET p_sub   == r.p_result[r.i + 1]
             psz_ext == strrchr(p_sub.psz_path, ".")
         IN  IF p_sub.null THEN [ r EXCEPT !.pc = "crash" ]
             ELSE IF psz_ext # 0 /\ strcasecmp(From(p_sub.psz_path, psz_ext + 1), s_cdg) = 0
             THEN Reject(r)
             ELSE [ r EXCEPT !.i = r.i + 1 ]

\* MUTANT of DetectConflictStep: the .sub rule marks the candidate the inner
\* loop stopped at, the .idx, instead of the .sub
DetectConflictStep_RejectsIdx(r, env) ==
    IF r.i >= Len(r.p_result) THEN Ret(r, "VLC_SUCCESS")
    ELSE LET p_sub   == r.p_result[r.i + 1]
             psz_ext == strrchr(p_sub.psz_path, ".")
             scan    == InnerScan(r.p_result, p_sub, 0)
         IN  IF p_sub.null THEN [ r EXCEPT !.pc = "crash" ]
             ELSE IF psz_ext # 0 /\ strcasecmp(From(p_sub.psz_path, psz_ext + 1), s_sub) = 0
                     /\ scan.kind = "found"
             THEN [ r EXCEPT !.p_result[scan.j + 1].b_rejected = TRUE, !.i = r.i + 1 ]
             ELSE [ r EXCEPT !.i = r.i + 1 ]

\* DetectConflictStep taking a rejected candidate off the list
DetectConflictStep_DropsRejected(r, env) ==
    IF r.i >= Len(r.p_result) THEN Ret(r, "VLC_SUCCESS")
    ELSE LET p_sub   == r.p_result[r.i + 1]
             psz_ext == strrchr(p_sub.psz_path, ".")
         IN  IF p_sub.null THEN [ r EXCEPT !.pc = "crash" ]
             ELSE IF psz_ext # 0 /\ strcasecmp(From(p_sub.psz_path, psz_ext + 1), s_cdg) = 0
                     /\ p_sub.i_priority < SLAVE_PRIORITY_MATCH_ALL
             THEN [ r EXCEPT !.p_result = SubSeq(r.p_result, 1, r.i)
                                            \o SubSeq(r.p_result, r.i + 2, Len(r.p_result)) ]
             ELSE [ r EXCEPT !.i = r.i + 1 ]

\* lines 418-463: one turn of the loop of the conflict pass, i 0-based
DetectConflictStep(r, env) ==
    IF r.i >= Len(r.p_result) THEN Ret(r, "VLC_SUCCESS")
    ELSE LET p_sub == r.p_result[r.i + 1]
         IN  IF p_sub.null
             THEN [ r EXCEPT !.pc = "crash" ]              \* p_sub->psz_path of NULL
             ELSE IF p_sub.psz_path = NULL THEN Reject(r)
             ELSE LET psz_ext == strrchr(p_sub.psz_path, ".")
                  IN  IF psz_ext = 0 THEN [ r EXCEPT !.i = r.i + 1 ]
                      ELSE IF strcasecmp(From(p_sub.psz_path, psz_ext + 1), s_sub) = 0
                      THEN LET scan == InnerScan(r.p_result, p_sub, 0)
                               r1   == [ r EXCEPT !.j_inner = scan.j ]
                           IN  IF scan.kind = "found" THEN Reject(r1)
                               ELSE IF scan.kind = "null"
                               THEN [ r1 EXCEPT !.pc = "crash" ]
                               \* past the end: the process dies, or the memory
                               \* there passes for a matching .idx
                               ELSE IF env.ub = "crash"
                               THEN [ r1 EXCEPT !.pc = "crash" ]
                               ELSE Reject(r1)
                      ELSE IF strcasecmp(From(p_sub.psz_path, psz_ext + 1), s_cdg) = 0
                      THEN IF p_sub.i_priority < SLAVE_PRIORITY_MATCH_ALL
                           THEN Reject(r)
                           ELSE [ r EXCEPT !.i = r.i + 1 ]
                      ELSE [ r EXCEPT !.i = r.i + 1 ]

\* the step of a call at its position; a call that returned or died stays
DetectStep(r, env) ==
    CASE r.pc = "entry"    -> DetectEntryStep(r, env)
      [] r.pc = "opendir"  -> DetectOpenStep(r)
      [] r.pc = "readdir"  -> DetectReadStep(r, env)
      [] r.pc = "conflict" -> DetectConflictStep(r, env)
      [] OTHER             -> r

\* a call with arguments i_fuzzy, psz_path, psz_fname and p_result, at its entry.
\* b_show_hiddenfiles is the setting show-hiddenfiles of the object, which the
\* call does not read.
DetectCall(i_fuzzy, psz_path, psz_fname, p_result) ==
    [ pc |-> "entry", ret |-> "none",
      i_fuzzy |-> i_fuzzy, psz_path |-> psz_path, psz_fname |-> psz_fname,
      p_result |-> p_result, on_entry |-> p_result,
      f_dir |-> <<>>, f_fname_trim |-> <<>>, subdirs |-> <<>>, psz_dir |-> <<>>,
      j |-> -1, unread |-> {}, i |-> 0, j_inner |-> 0,
      opened |-> <<>>, n_reads |-> 0, enomem |-> FALSE, collected |-> <<>>,
      b_show_hiddenfiles |-> FALSE,
      scored |-> [ name |-> <<>>, prio |-> 0, j |-> -1 ] ]

\* no call
DetectIdle == [ DetectCall(0, <<>>, <<>>, <<>>) EXCEPT !.pc = "idle" ]

(***************************************************************************)
(* directory.c: the extension tables and the classifiers.                  *)
(***************************************************************************)
\* ppsz_sub_exts, without its closing NULL
ppsz_sub_exts == SubSeq(sub_exts, 1, Len(sub_exts) - 1)

\* ppsz_audio_exts, without its closing NULL
ppsz_audio_exts == << << "a", "c", "3" >> >>

p_slave_list ==
    << [ i_type |-> "SLAVE_TYPE_SPU", ppsz_exts |-> ppsz_sub_exts ],
       [ i_type |-> "SLAVE_TYPE_AUDIO", ppsz_exts |-> ppsz_audio_exts ] >>

\* the comparison of is_slave: the first i_extlen characters of the two
ExtMatches(psz_ext, ppsz_slave_ext) ==
    strncasecmp(psz_ext, ppsz_slave_ext, Len(psz_ext)) = 0

\* the inner loop of is_slave over table i from entry k
RECURSIVE SlaveExtLoop(_, _, _)
SlaveExtLoop(psz_ext, i, k) ==
    IF k > Len(p_slave_list[i].ppsz_exts) THEN FALSE
    ELSE IF ExtMatches(psz_ext, p_slave_list[i].ppsz_exts[k]) THEN TRUE
    ELSE SlaveExtLoop(psz_ext, i, k + 1)

\* the outer loop of is_slave from table i
RECURSIVE SlaveTypeLoop(_, _)
SlaveTypeLoop(psz_ext, i) ==
    IF i > Len(p_slave_list) THEN [ slave |-> FALSE, i_type |-> "none" ]
    ELSE IF SlaveExtLoop(psz_ext, i, 1)
    THEN [ slave |-> TRUE, i_type |-> p_slave_list[i].i_type ]
    ELSE SlaveTypeLoop(psz_ext, i + 1)

\* the result of is_slave and the type it stores
is_slave(psz_name) ==
    LET psz_ext == strrchr(psz_name, ".")
    IN  IF psz_ext = 0 THEN [ slave |-> FALSE, i_type |-> "none" ]
        ELSE IF Len(From(psz_name, psz_ext + 1)) = 0
        THEN [ slave |-> FALSE, i_type |-> "none" ]
        ELSE SlaveTypeLoop(From(psz_name, psz_ext + 1), 1)

\* the loop of has_ext over what is left of psz_exts
RECURSIVE HasExtLoop(_, _)
HasExtLoop(type, ext) ==
    IF type = <<>> THEN FALSE
    ELSE LET comma == strchr(type, ",")
             end   == IF comma = 0 THEN Len(type) + 1 ELSE comma
         IN  IF end - 1 = Len(ext) /\ strncasecmp(ext, type, Len(ext)) = 0 THEN TRUE
             ELSE IF comma = 0 THEN FALSE
             ELSE HasExtLoop(From(type, comma + 1), ext)

has_ext(psz_exts, psz_uri) ==
    IF psz_exts = NULL THEN FALSE
    ELSE LET ext == strrchr(psz_uri, ".")
         IN  IF ext = 0 THEN FALSE ELSE HasExtLoop(psz_exts, From(psz_uri, ext + 1))

(***************************************************************************)
(* directory.c: name_from_uri and calculate_slave_priority.                *)
(***************************************************************************)
\* remove trailing white spaces
RECURSIVE TrimTrailingSpaces(_)
TrimTrailingSpaces(s) ==
    IF s # <<>> /\ s[Len(s)] = " " THEN TrimTrailingSpaces(SubSeq(s, 1, Len(s) - 1))
    ELSE s

\* oom: a strdup fails and the result is NULL
name_from_uri(psz_uri, oom) ==
    IF oom THEN NULL
    ELSE LET psz_slash == strrchr(psz_uri, "/")
             psz_ptr   == IF psz_slash # 0 THEN From(psz_uri, psz_slash + 1) ELSE psz_uri
             psz_dot   == strrchr(psz_ptr, ".")
             noext     == IF psz_dot # 0 THEN SubSeq(psz_ptr, 1, psz_dot - 1) ELSE psz_ptr
         IN  LowerStr(TrimTrailingSpaces(SkipSpaces(noext)))

\* MUTANT of calculate_slave_priority: the exact-match test is left out
calculate_slave_priority_NoExact(item_uri, slave_uri, oom) ==
    LET psz_item_name  == name_from_uri(item_uri, oom)
        psz_slave_name == name_from_uri(slave_uri, oom)
    IN  IF psz_item_name = NULL \/ psz_slave_name = NULL THEN SLAVE_PRIORITY_NONE
        ELSE LET psz_sub == strstr(psz_slave_name, psz_item_name)
             IN  IF psz_sub # 0
                 THEN IF Len(From(psz_slave_name, psz_sub + Len(psz_item_name))) = 0
                      THEN SLAVE_PRIORITY_MATCH_RIGHT
                      ELSE SLAVE_PRIORITY_MATCH_LEFT
                 ELSE SLAVE_PRIORITY_MATCH_NONE

\* the priority calculate_slave_priority stores in the slave and returns
calculate_slave_priority(item_uri, slave_uri, oom) ==
    LET psz_item_name  == name_from_uri(item_uri, oom)
        psz_slave_name == name_from_uri(slave_uri, oom)
    IN  IF psz_item_name = NULL \/ psz_slave_name = NULL THEN SLAVE_PRIORITY_NONE
        ELSE IF strcmp(psz_item_name, psz_slave_name) = 0 THEN SLAVE_PRIORITY_MATCH_ALL
        ELSE LET psz_sub == strstr(psz_slave_name, psz_item_name)
             IN  IF psz_sub # 0
                 THEN IF Len(From(psz_slave_name, psz_sub + Len(psz_item_name))) = 0
                      THEN SLAVE_PRIORITY_MATCH_RIGHT
                      ELSE SLAVE_PRIORITY_MATCH_LEFT
                 ELSE SLAVE_PRIORITY_MATCH_NONE

(***************************************************************************)
(* directory.c: Demux as the steps of one call.  The call's record r holds *)
(* the settings it inherits (b_show_hiddenfiles, psz_ignored_exts,         *)
(* i_fuzzy), the items the stream has yet to return (unread), the children *)
(* of p_node, the array p_slaves and its position.  A child is an item     *)
(* with the indices in p_slaves of the slaves attached to it; a slave      *)
(* keeps whether input_item_slave_Delete has freed it and how often it was *)
(* called.                                                                 *)
(***************************************************************************)
input_item_slave_New(psz_uri, i_type, i_priority) ==
    [ psz_uri |-> psz_uri, i_type |-> i_type, i_priority |-> i_priority,
      freed |-> FALSE, n_delete |-> 0 ]

input_item_slave_Delete(p_slave) ==
    [ p_slave EXCEPT !.freed = TRUE, !.n_delete = p_slave.n_delete + 1 ]

\* slave_list_Clear: every slave of the array is deleted, the array is emptied
slave_list_Clear(r) ==
    [ r EXCEPT !.p_slaves = <<>>,
               !.cleared = r.cleared \o [ k \in DOMAIN r.p_slaves |->
                                            input_item_slave_Delete(r.p_slaves[k]) ] ]

\* lines 343-389: one turn of the loop over the stream, and its exits.  appended
\* keeps the items in the order input_item_node_AppendItem took them, last the
\* name of the entry read last and whether it went to skip_item at line 350.
DemuxReadStep(r, env) ==
    IF r.i_ret # "VLC_SUCCESS"
    THEN [ slave_list_Clear(r) EXCEPT !.pc = "done", !.children = <<>> ]
    ELSE IF r.unread = {}
    THEN [ r EXCEPT !.pc = "attach_slaves" ]
    ELSE LET p_item == env.pick
             r1     == [ r EXCEPT !.unread = r.unread \ { p_item } ]
             name   == p_item.psz_name
             found  == is_slave(name)
         IN  IF \/ Len(name) = 0
                \/ strcmp(name, << "." >>) = 0
                \/ strcmp(name, << ".", "." >>) = 0
                \/ (~r.b_show_hiddenfiles /\ name[1] = ".")
             THEN [ r1 EXCEPT !.last = [ name |-> name, skipped |-> TRUE ] ]
             ELSE LET r2 == [ r1 EXCEPT !.classified =
                                [ name |-> name, slave |-> found.slave,
                                  i_type |-> found.i_type ],
                                        !.last = [ name |-> name, skipped |-> FALSE ] ]
                  IN  IF found.slave
                      THEN IF env.oom1 THEN [ r2 EXCEPT !.i_ret = "VLC_ENOMEM" ]
                           ELSE [ r2 EXCEPT !.p_slaves = Append(r.p_slaves,
                                     input_item_slave_New(p_item.psz_uri, found.i_type,
                                                          SLAVE_PRIORITY_NONE)) ]
                      ELSE IF has_ext(r.psz_ignored_exts, name) THEN r2
                      ELSE IF env.oom1 THEN [ r2 EXCEPT !.i_ret = "VLC_ENOMEM" ]
                      ELSE [ r2 EXCEPT !.children = Append(r.children,
                                [ p_item |-> p_item, slaves |-> <<>> ]),
                                       !.appended = Append(r.appended, p_item) ]

\* lines 287-289: attach_slaves reads sub-autodetect-fuzzy and returns when it is 0
DemuxAttachEntryStep(r, i_fuzzy) ==
    IF i_fuzzy = 0 THEN [ r EXCEPT !.pc = "sort", !.i_fuzzy = i_fuzzy ]
    ELSE [ r EXCEPT !.pc = "attach", !.i_fuzzy = i_fuzzy, !.i = 0, !.j = 0 ]

\* lines 290-301: attach_slaves, one turn of its inner loop (i, j 0-based).  A
\* slave that was freed in an earlier turn is read and written through a
\* dangling pointer: the process dies (ub = "crash") or the freed memory still
\* holds the slave.  enomem records that an allocation of name_from_uri failed.
DemuxAttachStep(r, env) ==
    IF r.i >= Len(r.children) THEN [ r EXCEPT !.pc = "sort" ]
    ELSE IF r.j >= Len(r.p_slaves) THEN [ r EXCEPT !.i = r.i + 1, !.j = 0 ]
    ELSE LET p_item  == r.children[r.i + 1].p_item
             p_slave == r.p_slaves[r.j + 1]
             prio    == calculate_slave_priority(p_item.psz_uri, p_slave.psz_uri, env.oom1)
             r1      == [ r EXCEPT !.p_slaves[r.j + 1].i_priority = prio,
                                   !.scored = [ item |-> p_item.psz_name,
                                                slave |-> p_slave.psz_uri,
                                                prio |-> prio,
                                                oom |-> env.oom1,
                                                stale |-> p_slave.freed ],
                                   !.enomem = @ \/ env.oom1,
                                   !.j = r.j + 1 ]
         IN  IF p_slave.freed /\ env.ub = "crash" THEN [ r EXCEPT !.pc = "crash" ]
             ELSE IF prio >= r.i_fuzzy
             THEN [ r1 EXCEPT !.children[r.i + 1].slaves = Append(@, r.j + 1) ]
             ELSE [ r1 EXCEPT !.p_slaves[r.j + 1] = input_item_slave_Delete(@) ]

(***************************************************************************)
(* directory.c: the comparators and the sort at the end of Demux.          *)
(***************************************************************************)
\* the characters of the model in the order of their codes
AsciiChars ==
    << " ", "(", ")", ",", "-", ".", "/" >> \o DigitChars \o UpperChars \o LowerChars

Ord(c) == CHOOSE i \in DOMAIN AsciiChars : AsciiChars[i] = c

Sign(n) == IF n < 0 THEN -1 ELSE IF n > 0 THEN 1 ELSE 0

\* the sign of the byte-wise comparison of a and b from index i
RECURSIVE ByteCmp(_, _, _)
ByteCmp(a, b, i) ==
    IF i > Len(a) /\ i > Len(b) THEN 0
    ELSE IF i > Len(a) THEN -1
    ELSE IF i > Len(b) THEN 1
    ELSE IF a[i] # b[i] THEN Sign(Ord(a[i]) - Ord(b[i]))
    ELSE ByteCmp(a, b, i + 1)

\* strcoll in the C locale
strcoll(a, b) == ByteCmp(a, b, 1)

isdigit(c) == c \in Range(DigitChars)

\* the class of a character for strverscmp: 0 other (and the end), 1 digit, 2 '0'
VersClass(s, i) ==
    IF i > Len(s) THEN 0 ELSE IF s[i] = "0" THEN 2 ELSE IF isdigit(s[i]) THEN 1 ELSE 0

\* the states of strverscmp: normal, integral part, fractional part, leading zeros
VersNext == [ S_N |-> << "S_N", "S_I", "S_Z" >>, S_I |-> << "S_N", "S_I", "S_I" >>,
              S_F |-> << "S_N", "S_F", "S_F" >>, S_Z |-> << "S_N", "S_F", "S_Z" >> ]

\* what decides at the first difference, by state and the two classes there
VersResult ==
    [ S_N |-> << "CMP", "CMP", "CMP", "CMP", "LEN", "CMP", "CMP", "CMP", "CMP" >>,
      S_I |-> << "CMP", "-1", "-1", "+1", "LEN", "LEN", "+1", "LEN", "LEN" >>,
      S_F |-> << "CMP", "CMP", "CMP", "CMP", "CMP", "CMP", "CMP", "CMP", "CMP" >>,
      S_Z |-> << "CMP", "+1", "+1", "-1", "CMP", "CMP", "-1", "CMP", "CMP" >> ]

\* the length of the run of digits of s from index i
RECURSIVE DigitRun(_, _)
DigitRun(s, i) == IF i <= Len(s) /\ isdigit(s[i]) THEN 1 + DigitRun(s, i + 1) ELSE 0

\* strverscmp from index i in state st (the state before the class of a[i])
RECURSIVE VersLoop(_, _, _, _)
VersLoop(a, b, i, st) ==
    LET ca   == VersClass(a, i)
        cb   == VersClass(b, i)
        same == (i > Len(a) /\ i > Len(b)) \/ (i <= Len(a) /\ i <= Len(b) /\ a[i] = b[i])
        diff == IF i > Len(a) THEN -1 ELSE IF i > Len(b) THEN 1
                ELSE Sign(Ord(a[i]) - Ord(b[i]))
        kind == VersResult[st][ca * 3 + cb + 1]
    IN  IF same
        THEN IF i > Len(a) THEN 0 ELSE VersLoop(a, b, i + 1, VersNext[st][ca + 1])
        ELSE CASE kind = "CMP" -> diff
               [] kind = "-1"  -> -1
               [] kind = "+1"  -> 1
               [] OTHER        -> IF DigitRun(a, i) > DigitRun(b, i) THEN 1
                                  ELSE IF DigitRun(a, i) < DigitRun(b, i) THEN -1
                                  ELSE diff

strverscmp(a, b) == VersLoop(a, b, 1, "S_N")

\* compar_type that finds every two items of the same type
compar_type_Blind(p1, p2) == 0

compar_type(p1, p2) ==
    IF p1.i_type # p2.i_type
    THEN IF p1.i_type = "ITEM_TYPE_DIRECTORY" THEN -1
         ELSE IF p2.i_type = "ITEM_TYPE_DIRECTORY" THEN 1
         ELSE 0
    ELSE 0

compar_collate(p1, p2) ==
    IF compar_type(p1, p2) # 0 THEN compar_type(p1, p2)
    ELSE strcoll(p1.psz_name, p2.psz_name)

\* compar_version with the names compared by strcoll
compar_version_Collates(p1, p2) ==
    IF compar_type(p1, p2) # 0 THEN compar_type(p1, p2)
    ELSE strcoll(p1.psz_name, p2.psz_name)

compar_version(p1, p2) ==
    IF compar_type(p1, p2) # 0 THEN compar_type(p1, p2)
    ELSE strverscmp(p1.psz_name, p2.psz_name)

\* compar_cb with the setting "none" not set apart from the other names
compar_cb_NoneCollates(psz_sort) ==
    IF psz_sort = NULL THEN "NULL"
    ELSE IF strcasecmp(psz_sort, << "v", "e", "r", "s", "i", "o", "n" >>) = 0
    THEN "compar_version"
    ELSE "compar_collate"

\* lines 393-402: the comparator Demux picks for the setting directory-sort
compar_cb(psz_sort) ==
    IF psz_sort = NULL THEN "NULL"
    ELSE IF strcasecmp(psz_sort, << "v", "e", "r", "s", "i", "o", "n" >>) = 0
    THEN "compar_version"
    ELSE IF strcasecmp(psz_sort, << "n", "o", "n", "e" >>) # 0 THEN "compar_collate"
    ELSE "NULL"

Compare(cb, p1, p2) ==
    IF cb = "compar_version" THEN compar_version(p1, p2) ELSE compar_collate(p1, p2)

\* the orders input_item_node_Sort may leave the children in: the rearrangements
\* of the children in which no child compares greater than a later one
input_item_node_Sort(children, cb) ==
    { [ k \in DOMAIN children |-> children[f[k]] ] :
        f \in { g \in [ DOMAIN children -> DOMAIN children ] :
                  /\ \A x, y \in DOMAIN children : x # y => g[x] # g[y]
                  /\ \A x, y \in DOMAIN children :
                        x < y => Compare(cb, children[g[x]].p_item,
                                             children[g[y]].p_item) <= 0 } }

\* lines 391-409: the sort and the return.  b_dir_sorted is what the stream
\* reported, psz_sort the setting directory-sort read here, sorted the order the
\* sort leaves
DemuxSortStep(r, b_dir_sorted, psz_sort, sorted) ==
    IF ~b_dir_sorted /\ compar_cb(psz_sort) # "NULL"
    THEN [ r EXCEPT !.pc = "done", !.b_dir_sorted = b_dir_sorted, !.psz_sort = psz_sort,
                    !.children = sorted, !.applied = compar_cb(psz_sort) ]
    ELSE [ r EXCEPT !.pc = "done", !.b_dir_sorted = b_dir_sorted, !.psz_sort = psz_sort ]

DemuxStep(r, env) ==
    CASE r.pc = "read"   -> DemuxReadStep(r, env)
      [] r.pc = "attach" -> DemuxAttachStep(r, env)
      [] OTHER           -> r

\* a call of Demux over the items of a stream, at the head of its read loop; the
\* settings read later in the call are unset (i_fuzzy is below every value of
\* the setting until it is read)
DemuxCall(b_show_hiddenfiles, psz_ignored_exts, items) ==
    [ pc |-> "read", i_ret |-> "VLC_SUCCESS",
      b_show_hiddenfiles |-> b_show_hiddenfiles,
      psz_ignored_exts |-> psz_ignored_exts, i_fuzzy |-> SLAVE_PRIORITY_NONE - 2,
      b_dir_sorted |-> FALSE, psz_sort |-> NULL, applied |-> "NULL",
      unread |-> items, children |-> <<>>, appended |-> <<>>,
      p_slaves |-> <<>>, cleared |-> <<>>,
      i |-> 0, j |-> 0, enomem |-> FALSE,
      classified |-> [ name |-> <<>>, slave |-> FALSE, i_type |-> "none" ],
      last |-> [ name |-> <<>>, skipped |-> FALSE ],
      scored |-> [ item |-> <<>>, slave |-> <<>>, prio |-> 0, oom |-> FALSE,
                   stale |-> FALSE ] ]

\* no call
DemuxIdle == [ DemuxCall(FALSE, NULL, {}) EXCEPT !.pc = "idle" ]

\* the item the stream returns for an entry of the directory d/
Item(psz_name, i_type) ==
    [ psz_name |-> psz_name, psz_uri |-> s_d \o psz_name, i_type |-> i_type ]

(***************************************************************************)
(* The inputs of the model: file names, directories, settings.             *)
(***************************************************************************)
s_movie == << "m", "o", "v", "i", "e" >>

s_song == << "s", "o", "n", "g" >>

s_other == << "o", "t", "h", "e", "r" >>

s_srt == << "s", "r", "t" >>

s_avi == << "a", "v", "i" >>

WithExt(base, ext) == base \o << "." >> \o ext

File(name) == [ name |-> name, reg |-> TRUE ]

\* what the directory of the primary file may hold
PrimaryDirNames ==
    { WithExt(s_movie, s_sub),                             \* movie.sub
      WithExt(s_movie, s_idx),                             \* movie.idx
      WithExt(s_movie, << "C", "D", "G" >>),               \* movie.CDG
      WithExt(s_song, s_cdg),                              \* song.cdg
      WithExt(s_other, s_sub),                             \* other.sub
      WithExt(<< "a", " " >> \o s_movie, s_srt),           \* a movie.srt
      WithExt(s_movie \o << ".", "e", "n" >>, s_srt),      \* movie.en.srt
      WithExt(s_movie, s_avi) }                            \* movie.avi

\* what the sub-directory s holds
SubDirEntries == { File(WithExt(s_movie, s_srt)), File(WithExt(s_song, s_srt)) }

\* the settings of sub-autodetect-path: none, and the sub-directory s
SubPaths == { NULL, << ".", "/", "s" >> }

\* a candidate that is on the list before the call
OldSub ==
    subtitle_New(<< "/", "o", "/" >> \o WithExt(s_song, s_cdg),
                 SLAVE_PRIORITY_MATCH_LEFT, FALSE)

\* most entries of the primary directory in a state of the general specification
MaxEntries == 2

SmallSubsets(S, n) == { T \in SUBSET S : Cardinality(T) <= n }

NoEntry == [ name |-> <<>>, reg |-> FALSE ]

\* the values of sub-autodetect-fuzzy, an integer setting: the five priorities
\* and a value below them
FuzzyValues == (SLAVE_PRIORITY_NONE - 1)..SLAVE_PRIORITY_MATCH_ALL

\* no caller of strcpy_trim
TrimIdle == [ pc |-> "idle", s |-> <<>>, d |-> <<>>, d2 |-> <<>> ]

EnvOf(oom1, oom2, ub, pick) ==
    [ oom1 |-> oom1, oom2 |-> oom2, oom3 |-> 0, ub |-> ub, pick |-> pick ]

\* the allocations of paths_to_list that may fail in a call: none when psz_path
\* is NULL, else calloc and an asprintf for each directory of the list
PathsOom(psz_path) ==
    IF psz_path = NULL THEN { 0 } ELSE 0..(1 + Len(PathsLoop(<<>>, psz_path, 0)))

(***************************************************************************)
(* The actions of a call c of subtitles_Detect.                            *)
(***************************************************************************)
DetectEntry(c) ==
    /\ det[c].pc = "entry"
    /\ \E oom1 \in BOOLEAN, oom2 \in BOOLEAN, oom3 \in PathsOom(det[c].psz_path) :
          det' = [ det EXCEPT ![c] =
                     DetectStep(@, [ EnvOf(oom1, oom2, "crash", NoEntry)
                                       EXCEPT !.oom3 = oom3 ]) ]
    /\ UNCHANGED <<fs, dmx, trm>>

DetectOpenDir(c) ==
    /\ det[c].pc = "opendir"
    /\ det' = [ det EXCEPT ![c] = DetectStep(@, EnvOf(FALSE, FALSE, "crash", NoEntry)) ]
    /\ UNCHANGED <<fs, dmx, trm>>

DetectCloseDir(c) ==
    /\ det[c].pc = "readdir"
    /\ det[c].unread = {}
    /\ det' = [ det EXCEPT ![c] = DetectStep(@, EnvOf(FALSE, FALSE, "crash", NoEntry)) ]
    /\ UNCHANGED <<fs, dmx, trm>>

DetectReadDir(c) ==
    /\ det[c].pc = "readdir"
    /\ \E pick \in det[c].unread, oom1 \in BOOLEAN, oom2 \in BOOLEAN :
          det' = [ det EXCEPT ![c] = DetectStep(@, EnvOf(oom1, oom2, "crash", pick)) ]
    /\ UNCHANGED <<fs, dmx, trm>>

DetectConflict(c) ==
    /\ det[c].pc = "conflict"
    /\ \E ub \in { "crash", "hit" } :
          det' = [ det EXCEPT ![c] = DetectStep(@, EnvOf(FALSE, FALSE, ub, NoEntry)) ]
    /\ UNCHANGED <<fs, dmx, trm>>

NextDetect ==
    \/ DetectEntry(1)
    \/ DetectOpenDir(1)
    \/ DetectReadDir(1)
    \/ DetectCloseDir(1)
    \/ DetectConflict(1)

(***************************************************************************)
(* The general specification: one call of subtitles_Detect for the primary *)
(* file d/movie.avi over a directory of up to MaxEntries files.            *)
(***************************************************************************)
PrimaryFile == s_d \o WithExt(s_movie, s_avi)

InitDetect ==
    /\ \E names \in SmallSubsets(PrimaryDirNames, MaxEntries) :
          fs = [ id \in DirIds |->
                   CASE id = "D" -> [ exists |-> TRUE,
                                      entries |-> { File(n) : n \in names } ]
                     [] id = "S" -> [ exists |-> TRUE, entries |-> SubDirEntries ]
                     [] OTHER    -> [ exists |-> FALSE, entries |-> {} ] ]
    /\ \E i_fuzzy \in FuzzyValues, psz_path \in SubPaths,
          p_result \in { <<>>, << OldSub >> } :
          det = [ c \in { 1, 2 } |->
                    IF c = 1 THEN DetectCall(i_fuzzy, psz_path, PrimaryFile, p_result)
                    ELSE DetectIdle ]
    /\ dmx = DemuxIdle
    /\ trm = TrimIdle

\* most items of the stream in a state of the general specification
MaxItems == 3

\* what the stream of Demux may return
StreamItems ==
    { Item(WithExt(s_movie, s_avi), "ITEM_TYPE_FILE"),                  \* movie.avi
      Item(WithExt(s_song, s_avi), "ITEM_TYPE_FILE"),                   \* song.avi
      Item(WithExt(s_movie, s_srt), "ITEM_TYPE_FILE"),                  \* movie.srt
      Item(WithExt(s_movie, << "s" >>), "ITEM_TYPE_FILE"),              \* movie.s
      Item(WithExt(s_movie, << "A", "C", "3" >>), "ITEM_TYPE_FILE"),    \* movie.AC3
      Item(WithExt(<< >>, WithExt(s_movie, s_srt)), "ITEM_TYPE_FILE"),  \* .movie.srt
      Item(<< "c", "d", "1", "0" >>, "ITEM_TYPE_DIRECTORY"),            \* cd10
      Item(<< "c", "d", "2" >>, "ITEM_TYPE_DIRECTORY") }                \* cd2

\* the settings of directory-sort
SortModes ==
    { NULL, << "V", "e", "r", "s", "i", "o", "n" >>, << "n", "o", "n", "e" >>,
      << "c", "o", "l", "l", "a", "t", "e" >> }

\* the settings of ignore-filetypes
IgnoredExts == { NULL, << "m", "3", "u", ",", "a", "v", "i" >> }

NoDirs == [ id \in DirIds |-> [ exists |-> FALSE, entries |-> {} ] ]

InitDemux ==
    /\ \E items \in SmallSubsets(StreamItems, MaxItems),
          b_show_hiddenfiles \in BOOLEAN, psz_ignored_exts \in IgnoredExts :
          dmx = DemuxCall(b_show_hiddenfiles, psz_ignored_exts, items)
    /\ fs = NoDirs
    /\ det = [ c \in { 1, 2 } |-> DetectIdle ]
    /\ trm = TrimIdle

(***************************************************************************)
(* The actions of the call of Demux.                                       *)
(***************************************************************************)
DemuxReadDir ==
    /\ dmx.pc = "read"
    /\ dmx.i_ret = "VLC_SUCCESS"
    /\ \E pick \in dmx.unread, oom1 \in BOOLEAN :
          dmx' = DemuxStep(dmx, EnvOf(oom1, FALSE, "crash", pick))
    /\ UNCHANGED <<fs, det, trm>>

DemuxEndOfStream ==
    /\ dmx.pc = "read"
    /\ dmx.i_ret # "VLC_SUCCESS" \/ dmx.unread = {}
    /\ dmx' = DemuxStep(dmx, EnvOf(FALSE, FALSE, "crash", NoEntry))
    /\ UNCHANGED <<fs, det, trm>>

DemuxAttachEntry ==
    /\ dmx.pc = "attach_slaves"
    /\ \E i_fuzzy \in FuzzyValues :
          dmx' = DemuxAttachEntryStep(dmx, i_fuzzy)
    /\ UNCHANGED <<fs, det, trm>>

DemuxAttach ==
    /\ dmx.pc = "attach"
    /\ \E oom1 \in BOOLEAN, ub \in { "crash", "hit" } :
          dmx' = DemuxStep(dmx, EnvOf(oom1, FALSE, ub, NoEntry))
    /\ UNCHANGED <<fs, det, trm>>

DemuxSort ==
    /\ dmx.pc = "sort"
    /\ \E b_dir_sorted \in BOOLEAN, psz_sort \in SortModes :
          \E sorted \in IF ~b_dir_sorted /\ compar_cb(psz_sort) # "NULL"
                         THEN input_item_node_Sort(dmx.children, compar_cb(psz_sort))
                         ELSE { dmx.children } :
             dmx' = DemuxSortStep(dmx, b_dir_sorted, psz_sort, sorted)
    /\ UNCHANGED <<fs, det, trm>>

NextDemux ==
    \/ DemuxReadDir
    \/ DemuxEndOfStream
    \/ DemuxAttachEntry
    \/ DemuxAttach
    \/ DemuxSort

(***************************************************************************)
(* Demux over a stream of two entries whose names differ in a run of       *)
(* digits only: t<run>.mkv, files, and two directories.                    *)
(***************************************************************************)
\* most digits of a run
MaxRunLen == 2

s_mkv == << "m", "k", "v" >>

RunDigits == { "0", "1", "2", "9" }

\* the runs of digits
Runs == StringsUpTo(RunDigits, MaxRunLen) \ { <<>> }

NumberedName(run) == WithExt(<< "t" >> \o run, s_mkv)

NumberedItems ==
    { Item(NumberedName(run), "ITEM_TYPE_FILE") : run \in Runs }
      \cup { Item(NumberedName(<< "2" >>), "ITEM_TYPE_DIRECTORY"),
             Item(NumberedName(<< "1", "0" >>), "ITEM_TYPE_DIRECTORY") }

InitSort ==
    /\ \E items \in SUBSET NumberedItems :
          /\ Cardinality(items) = 2
          /\ dmx = DemuxCall(FALSE, NULL, items)
    /\ fs = NoDirs
    /\ det = [ c \in { 1, 2 } |-> DetectIdle ]
    /\ trm = TrimIdle

SpecSort == InitSort /\ [][NextDemux]_vars

(***************************************************************************)
(* Calls at the edges of their inputs: a primary path that is missing, has *)
(* no separator, ends in the separator or names a subtitle file; entries   *)
(* that are hidden, "." and "..", or no regular file.                      *)
(***************************************************************************)
s_dotdot == << ".", "." >>

EdgePrimaries ==
    { NULL,                                                \* no path
      WithExt(s_movie, s_sub),                             \* movie.sub
      s_d,                                                 \* d/
      s_d \o WithExt(s_movie, s_sub),                      \* d/movie.sub
      PrimaryFile }                                        \* d/movie.avi

EdgeEntries ==
    { File(WithExt(s_movie, s_sub)),                                   \* movie.sub
      [ name |-> WithExt(s_movie, s_srt), reg |-> FALSE ],             \* movie.srt/
      File(WithExt(<<>>, WithExt(s_movie, s_srt))),                    \* .movie.srt
      [ name |-> s_dotdot, reg |-> FALSE ] }                           \* ..

EdgeFuzzy == { SLAVE_PRIORITY_MATCH_NONE, SLAVE_PRIORITY_MATCH_ALL }

InitEdgeDetect ==
    /\ \E entries \in SmallSubsets(EdgeEntries, MaxEntries) :
          fs = [ id \in DirIds |->
                   IF id = "D" THEN [ exists |-> TRUE, entries |-> entries ]
                   ELSE [ exists |-> FALSE, entries |-> {} ] ]
    /\ \E psz_fname \in EdgePrimaries, i_fuzzy \in EdgeFuzzy,
          b_show_hiddenfiles \in BOOLEAN :
          det = [ c \in { 1, 2 } |->
                    IF c = 1
                    THEN [ DetectCall(i_fuzzy, NULL, psz_fname, << OldSub >>)
                             EXCEPT !.b_show_hiddenfiles = b_show_hiddenfiles ]
                    ELSE DetectIdle ]
    /\ dmx = DemuxIdle
    /\ trm = TrimIdle

EdgeItems ==
    { Item(<< "." >>, "ITEM_TYPE_DIRECTORY"),                            \* .
      Item(s_dotdot, "ITEM_TYPE_DIRECTORY"),                            \* ..
      Item(WithExt(<<>>, WithExt(s_movie, s_srt)), "ITEM_TYPE_FILE"),   \* .movie.srt
      Item(WithExt(<<>>, WithExt(s_movie, s_avi)), "ITEM_TYPE_FILE"),   \* .movie.avi
      Item(WithExt(s_movie, s_avi), "ITEM_TYPE_FILE") }                 \* movie.avi

InitEdgeDemux ==
    /\ \E items \in SmallSubsets(EdgeItems, MaxItems), b_show_hiddenfiles \in BOOLEAN :
          dmx = DemuxCall(b_show_hiddenfiles, NULL, items)
    /\ fs = NoDirs
    /\ det = [ c \in { 1, 2 } |-> DetectIdle ]
    /\ trm = TrimIdle

InitEdge == InitEdgeDetect \/ InitEdgeDemux

\* one call of subtitles_Detect
SpecDetect == InitDetect /\ [][NextDetect]_vars

\* one call of Demux
SpecDemux == InitDemux /\ [][NextDemux]_vars

\* one call of either
Init == InitDetect \/ InitDemux

Next == NextDetect \/ NextDemux

Spec == Init /\ [][Next]_vars

(***************************************************************************)
(* One call of subtitles_Detect for d/movie.avi over directories that may  *)
(* be missing and a list of extra directories.                             *)
(***************************************************************************)
DirsPaths ==
    { << ".", "/", "s" >>,                                 \* ./s
      << "/", "x", ",", ".", "/", "s" >>,                  \* /x,./s
      << "." >>,                                           \* .
      << ".", "/" >>,                                      \* ./
      s_d,                                                 \* d/
      << ".", ",", " ", ".", "/", "s" >> }                 \* ., ./s

DirsEntries == { File(WithExt(s_movie, s_srt)) }

InitDirs ==
    /\ \E has \in [ DirIds -> BOOLEAN ] :
          fs = [ id \in DirIds |->
                   [ exists |-> has[id],
                     entries |-> IF id = "S" THEN SubDirEntries ELSE DirsEntries ] ]
    /\ \E i_fuzzy \in EdgeFuzzy, psz_path \in DirsPaths :
          det = [ c \in { 1, 2 } |->
                    IF c = 1 THEN DetectCall(i_fuzzy, psz_path, PrimaryFile, <<>>)
                    ELSE DetectIdle ]
    /\ dmx = DemuxIdle
    /\ trm = TrimIdle

SpecDirs == InitDirs /\ [][NextDetect]_vars

(***************************************************************************)
(* One call of subtitles_Detect for d/movie.avi over a directory of pairs  *)
(* and near-pairs of .sub and .idx files.                                  *)
(***************************************************************************)
ConflictDirNames ==
    { WithExt(s_movie, s_sub),                                       \* movie.sub
      WithExt(s_movie, s_idx),                                       \* movie.idx
      WithExt(<< "M", "o", "v", "i", "e" >>, << "I", "D", "X" >>),   \* Movie.IDX
      WithExt(s_movie \o << ".", "e", "n" >>, s_idx),                \* movie.en.idx
      WithExt(s_movie, s_srt),                                       \* movie.srt
      WithExt(s_song, s_cdg) }                                       \* song.cdg

InitConflict ==
    /\ \E names \in SmallSubsets(ConflictDirNames, MaxEntries) :
          fs = [ id \in DirIds |->
                   IF id = "D" THEN [ exists |-> TRUE,
                                      entries |-> { File(n) : n \in names } ]
                   ELSE [ exists |-> FALSE, entries |-> {} ] ]
    /\ \E i_fuzzy \in EdgeFuzzy, p_result \in { <<>>, << OldSub >> } :
          det = [ c \in { 1, 2 } |->
                    IF c = 1 THEN DetectCall(i_fuzzy, NULL, PrimaryFile, p_result)
                    ELSE DetectIdle ]
    /\ dmx = DemuxIdle
    /\ trm = TrimIdle

SpecConflict == InitConflict /\ [][NextDetect]_vars

\* the calls at the edges of their inputs
SpecEdge == InitEdge /\ [][Next]_vars

(***************************************************************************)
(* The name specification: the primary file is d/N.avi (or d/N when N has  *)
(* no '.') for every base name N over NameAlphabet up to MaxNameLen, and   *)
(* its directory holds one companion whose name is built from N.           *)
(***************************************************************************)
MaxNameLen == 2

NameAlphabet == { "a", "B", "-", " ", "." }

s_2009 == << " ", "(", "2", "0", "0", "9", ")" >>

s_Part1 == << "P", "a", "r", "t", "1", " ", "-", " " >>

s_CD2 == << " ", "-", " ", "C", "D", "2" >>

\* N.srt
ExactName(N) == WithExt(N, s_srt)

\* N (2009).srt
DecoratedName(N) == WithExt(N \o s_2009, s_srt)

\* Part1 - N - CD2.srt
EmbeddedName(N) == WithExt(s_Part1 \o N \o s_CD2, s_srt)

\* (2009) N.srt
PrefixedName(N) == WithExt(<< "(", "2", "0", "0", "9", ")", " " >> \o N, s_srt)

CompanionNames(N) == { ExactName(N), DecoratedName(N), EmbeddedName(N), PrefixedName(N) }

PrimaryNames(N) ==
    { WithExt(N, s_avi) } \cup (IF N # <<>> /\ strrchr(N, ".") = 0 THEN { N } ELSE {})

\* subtitles_Detect is called for the primary file
InitNameDetect ==
    \E N \in StringsUpTo(NameAlphabet, MaxNameLen) :
      \E f_fname \in PrimaryNames(N), name \in CompanionNames(N),
         i_fuzzy \in FuzzyValues :
        /\ fs = [ id \in DirIds |->
                    IF id = "D" THEN [ exists |-> TRUE, entries |-> { File(name) } ]
                    ELSE [ exists |-> FALSE, entries |-> {} ] ]
        /\ det = [ c \in { 1, 2 } |->
                     IF c = 1 THEN DetectCall(i_fuzzy, NULL, s_d \o f_fname, <<>>)
                     ELSE DetectIdle ]
        /\ dmx = DemuxIdle
        /\ trm = TrimIdle

\* Demux lists the directory that holds the primary file and the companion
InitNameDemux ==
    \E N \in StringsUpTo(NameAlphabet, MaxNameLen) :
      \E f_fname \in PrimaryNames(N), name \in CompanionNames(N) :
        /\ dmx = DemuxCall(TRUE, NULL, { Item(f_fname, "ITEM_TYPE_FILE"),
                                         Item(name, "ITEM_TYPE_FILE") })
        /\ fs = NoDirs
        /\ det = [ c \in { 1, 2 } |-> DetectIdle ]
        /\ trm = TrimIdle

InitName == InitNameDetect \/ InitNameDemux

SpecName == InitName /\ [][Next]_vars

(***************************************************************************)
(* The scorers over names that differ from the primary file's in their     *)
(* separators: the primary file is d/movie.avi or d/my-movie.avi and its   *)
(* directory holds one companion.                                          *)
(***************************************************************************)
s_my == << "m", "y" >>

ScorePrimaries ==
    { WithExt(s_movie, s_avi),                                 \* movie.avi
      WithExt(s_my \o << "-" >> \o s_movie, s_avi) }           \* my-movie.avi

ScoreNames ==
    { WithExt(s_movie, s_srt),                                 \* movie.srt
      WithExt(<< "(" >> \o s_movie \o << ")" >>, s_srt),       \* (movie).srt
      WithExt(s_movie \o << "-" >>, s_srt),                    \* movie-.srt
      WithExt(s_my \o << " " >> \o s_movie, s_srt),            \* my movie.srt
      WithExt(s_other, s_srt) }                                \* other.srt

InitScoreDetect ==
    \E f_fname \in ScorePrimaries, name \in ScoreNames, i_fuzzy \in FuzzyValues :
        /\ fs = [ id \in DirIds |->
                    IF id = "D" THEN [ exists |-> TRUE, entries |-> { File(name) } ]
                    ELSE [ exists |-> FALSE, entries |-> {} ] ]
        /\ det = [ c \in { 1, 2 } |->
                     IF c = 1 THEN DetectCall(i_fuzzy, NULL, s_d \o f_fname, <<>>)
                     ELSE DetectIdle ]
        /\ dmx = DemuxIdle
        /\ trm = TrimIdle

InitScoreDemux ==
    \E f_fname \in ScorePrimaries, name \in ScoreNames :
        /\ dmx = DemuxCall(TRUE, NULL, { Item(f_fname, "ITEM_TYPE_FILE"),
                                         Item(name, "ITEM_TYPE_FILE") })
        /\ fs = NoDirs
        /\ det = [ c \in { 1, 2 } |-> DetectIdle ]
        /\ trm = TrimIdle

InitScore == InitScoreDetect \/ InitScoreDemux

SpecScore == InitScore /\ [][Next]_vars

(***************************************************************************)
(* Two calls of subtitles_Detect that differ in the threshold only: the    *)
(* same primary file, directories, search path and list on entry.  The     *)
(* calls advance together and vlc_readdir returns the entries in the same  *)
(* order to both; the allocations of each call fail on their own.          *)
(***************************************************************************)
\* what the directory of the primary file may hold: a candidate of each of the
\* priorities MATCH_ALL, MATCH_RIGHT and MATCH_NONE
MonoDirNames ==
    { WithExt(s_movie, s_sub),                             \* movie.sub
      WithExt(<< "a", " " >> \o s_movie, s_srt),           \* a movie.srt
      WithExt(s_other, s_sub) }                            \* other.sub

InitMono ==
    /\ \E names \in SUBSET MonoDirNames :
          fs = [ id \in DirIds |->
                   IF id = "D" THEN [ exists |-> TRUE,
                                      entries |-> { File(n) : n \in names } ]
                   ELSE [ exists |-> FALSE, entries |-> {} ] ]
    /\ \E t1 \in FuzzyValues, t2 \in FuzzyValues :
          /\ t1 < t2
          /\ det = [ c \in { 1, 2 } |->
                       DetectCall(IF c = 1 THEN t1 ELSE t2, NULL, PrimaryFile,
                                  << OldSub >>) ]
    /\ dmx = DemuxIdle
    /\ trm = TrimIdle

Running(c) == det[c].pc \in { "entry", "opendir", "readdir", "conflict" }

\* the entries vlc_readdir may return next to the calls that are reading
MonoPicks ==
    LET U == UNION { det[c].unread : c \in { d \in { 1, 2 } : det[d].pc = "readdir" } }
    IN  IF U = {} THEN { NoEntry } ELSE U

\* whether an allocation of call c may fail at its next step: the steps that
\* allocate are the entry and the turn of the loop over the entries
MonoOom(c) == IF det[c].pc \in { "entry", "readdir" } THEN BOOLEAN ELSE { FALSE }

\* what a read past the end of the array may do at the next step
MonoUb ==
    IF \E c \in { 1, 2 } : det[c].pc = "conflict" THEN { "crash", "hit" } ELSE { "crash" }

\* both calls take their next step
MonoStep ==
    /\ Running(1) \/ Running(2)
    /\ \E pick \in MonoPicks, ub \in MonoUb,
          oom1 \in [ { 1, 2 } -> BOOLEAN ], oom2 \in [ { 1, 2 } -> BOOLEAN ] :
          /\ \A c \in { 1, 2 } : oom1[c] \in MonoOom(c) /\ oom2[c] \in MonoOom(c)
          /\ det' = [ c \in { 1, 2 } |->
                        DetectStep(det[c], EnvOf(oom1[c], oom2[c], ub, pick)) ]
    /\ UNCHANGED <<fs, dmx, trm>>

NextMono == MonoStep

SpecMono == InitMono /\ [][NextMono]_vars

(***************************************************************************)
(* subtitles_Detect called twice, one call after the other, with the same  *)
(* arguments over the same directory; vlc_readdir returns the entries to   *)
(* each call in an order of its own.                                       *)
(***************************************************************************)
OrderDirNames ==
    { WithExt(s_movie, s_sub),                             \* movie.sub
      WithExt(s_movie, s_idx),                             \* movie.idx
      WithExt(s_movie, s_srt),                             \* movie.srt
      WithExt(s_song, s_cdg) }                             \* song.cdg

InitOrder ==
    /\ \E names \in SmallSubsets(OrderDirNames, MaxEntries) :
          fs = [ id \in DirIds |->
                   IF id = "D" THEN [ exists |-> TRUE,
                                      entries |-> { File(n) : n \in names } ]
                   ELSE [ exists |-> FALSE, entries |-> {} ] ]
    /\ \E i_fuzzy \in EdgeFuzzy :
          det = [ c \in { 1, 2 } |-> DetectCall(i_fuzzy, NULL, PrimaryFile, <<>>) ]
    /\ dmx = DemuxIdle
    /\ trm = TrimIdle

NextOrder ==
    \/ DetectEntry(1)
    \/ DetectOpenDir(1)
    \/ DetectReadDir(1)
    \/ DetectCloseDir(1)
    \/ DetectConflict(1)
    \/ ~Running(1) /\ DetectEntry(2)
    \/ ~Running(1) /\ DetectOpenDir(2)
    \/ ~Running(1) /\ DetectReadDir(2)
    \/ ~Running(1) /\ DetectCloseDir(2)
    \/ ~Running(1) /\ DetectConflict(2)

SpecOrder == InitOrder /\ [][NextOrder]_vars

(***************************************************************************)
(* The normalizer on its own: a caller draws a string, normalizes it, and  *)
(* normalizes the result again.                                            *)
(***************************************************************************)
TrimAlphabet == { "a", "B", "7", " ", "-", "." }

InitTrim ==
    \E s \in StringsUpTo(TrimAlphabet, MaxTrimLen) :
        /\ trm = [ pc |-> "start", s |-> s, d |-> <<>>, d2 |-> <<>> ]
        /\ fs = NoDirs
        /\ det = [ c \in { 1, 2 } |-> DetectIdle ]
        /\ dmx = DemuxIdle

TrimOnce ==
    /\ trm.pc = "start"
    /\ trm' = [ trm EXCEPT !.pc = "once", !.d = strcpy_trim(trm.s) ]
    /\ UNCHANGED <<fs, det, dmx>>

TrimTwice ==
    /\ trm.pc = "once"
    /\ trm' = [ trm EXCEPT !.pc = "twice", !.d2 = strcpy_trim(trm.d) ]
    /\ UNCHANGED <<fs, det, dmx>>

NextTrim == TrimOnce \/ TrimTwice

SpecTrim == InitTrim /\ [][NextTrim]_vars

(***************************************************************************)
(* Properties of the normalizer.                                           *)
(***************************************************************************)
\* C8: strcpy_trim is idempotent: normalizing an already normalized string
\* returns it unchanged.
C8_TrimIdempotent == trm.pc = "twice" => trm.d2 = trm.d

\* C8 witness: a string that the first pass changed and that kept a separator
\* has gone through both passes.
C8_Witness ==
    /\ trm.pc = "twice"
    /\ trm.d # trm.s
    /\ " " \in Range(trm.d)

IsLowerAlnum(c) == c \in Range(LowerChars) \cup Range(DigitChars)

FileOf(path) == From(path, strrchr(path, "/") + 1)

\* the base name of a file name: the name without its last '.' and what follows
BaseOf(name) ==
    IF strrchr(name, ".") = 0 THEN name ELSE SubSeq(name, 1, strrchr(name, ".") - 1)

\* the base name N of the primary file of call c
PrimaryBase(c) == BaseOf(FileOf(det[c].psz_fname))

NonBlank(N) == \E i \in DOMAIN N : isalnum(N[i])

\* call c has returned from its end
Returned(c) == det[c].pc = "done" /\ det[c].ret = "VLC_SUCCESS"

\* call c has scored an entry of that name
Scored(c, name) == det[c].scored.name # <<>> /\ det[c].scored.name = name

\* C2 as stated: for a non-blank primary base name N, the candidate N (2009).srt
\* is scored MATCH_RIGHT by subtitles_Detect.
C2_DecoratedIsRight ==
    (NonBlank(PrimaryBase(1)) /\ Scored(1, DecoratedName(PrimaryBase(1))))
        => det[1].scored.prio = SLAVE_PRIORITY_MATCH_RIGHT

\* C2 amended: for a non-blank primary base name N, the candidate N (2009).srt
\* is scored MATCH_LEFT by subtitles_Detect (text follows the movie name).
C2_DecoratedIsLeft ==
    (NonBlank(PrimaryBase(1)) /\ Scored(1, DecoratedName(PrimaryBase(1))))
        => det[1].scored.prio = SLAVE_PRIORITY_MATCH_LEFT

\* C2 witness: N (2009).srt has been scored for a base name N that holds an
\* upper-case letter and a separator, and was appended at the threshold
\* MATCH_LEFT.
C2_Witness ==
    /\ PrimaryBase(1) = << "B", "-" >>
    /\ Scored(1, DecoratedName(PrimaryBase(1)))
    /\ det[1].i_fuzzy = SLAVE_PRIORITY_MATCH_LEFT
    /\ Len(det[1].p_result) = 1

\* C3: for a non-blank primary base name N, the candidate Part1 - N - CD2.srt is
\* scored MATCH_LEFT by subtitles_Detect.
C3_EmbeddedIsLeft ==
    (NonBlank(PrimaryBase(1)) /\ Scored(1, EmbeddedName(PrimaryBase(1))))
        => det[1].scored.prio = SLAVE_PRIORITY_MATCH_LEFT

\* C3 witness: Part1 - N - CD2.srt has been scored for the base name aB and the
\* call has returned.
C3_Witness ==
    /\ PrimaryBase(1) = << "a", "B" >>
    /\ Scored(1, EmbeddedName(PrimaryBase(1)))
    /\ det[1].pc = "done"

\* C1 as stated: for a primary file of base name N, the candidate N.srt of the
\* same directory is scored MATCH_ALL by the scoring step of subtitles_Detect
\* and by calculate_slave_priority.
C1_ExactIsAll ==
    /\ Scored(1, ExactName(PrimaryBase(1)))
          => det[1].scored.prio = SLAVE_PRIORITY_MATCH_ALL
    /\ (/\ dmx.scored.item # <<>>
        /\ FileOf(dmx.scored.slave) = ExactName(BaseOf(dmx.scored.item)))
          => dmx.scored.prio = SLAVE_PRIORITY_MATCH_ALL

\* C1 amended: N.srt is scored MATCH_ALL by the scoring step of
\* subtitles_Detect; calculate_slave_priority scores it MATCH_ALL unless an
\* allocation of name_from_uri fails, and SLAVE_PRIORITY_NONE when one does.
C1_ExactIsAllUnlessNoMemory ==
    /\ Scored(1, ExactName(PrimaryBase(1)))
          => det[1].scored.prio = SLAVE_PRIORITY_MATCH_ALL
    /\ (/\ dmx.scored.item # <<>>
        /\ FileOf(dmx.scored.slave) = ExactName(BaseOf(dmx.scored.item)))
          => dmx.scored.prio = IF dmx.scored.oom THEN SLAVE_PRIORITY_NONE
                               ELSE SLAVE_PRIORITY_MATCH_ALL

\* C1 witness: calculate_slave_priority has scored N.srt for the item N.avi,
\* N of an upper-case letter and a separator, with its allocations served, and
\* the companion was attached to the item.
C1_Witness ==
    /\ dmx.scored.item = WithExt(<< "B", "-" >>, s_avi)
    /\ FileOf(dmx.scored.slave) = ExactName(<< "B", "-" >>)
    /\ ~dmx.scored.oom
    /\ dmx.i_fuzzy = SLAVE_PRIORITY_MATCH_ALL
    /\ \E k \in DOMAIN dmx.children : dmx.children[k].slaves # <<>>

(***************************************************************************)
(* Properties of the threshold.                                            *)
(***************************************************************************)
\* the number of candidates call c has appended
Appended(c) == Len(det[c].p_result) - Len(det[c].on_entry)

\* call c has left the loop over the directories
Scanned(c) == det[c].pc \in { "conflict", "done", "crash" }

C5_ZeroDisables ==
    /\ (det[1].pc # "idle" /\ det[1].i_fuzzy = 0)
          => /\ det[1].opened = <<>>
             /\ det[1].n_reads = 0
             /\ det[1].p_result = det[1].on_entry
    /\ dmx.i_fuzzy = 0
          => \A k \in DOMAIN dmx.children : dmx.children[k].slaves = <<>>

\* C5 witness: a call at threshold 0 has returned with the list it was given,
\* one candidate long, from a directory that holds movie.idx.
C5_Witness ==
    /\ det[1].pc = "done"
    /\ det[1].i_fuzzy = 0
    /\ det[1].p_result = << OldSub >>
    /\ File(WithExt(s_movie, s_idx)) \in fs["D"].entries

(***************************************************************************)
(* Properties of the classifier of Demux.                                  *)
(***************************************************************************)
\* ext is, ignoring letter case, a complete entry of the table
Listed(ext, ppsz_exts) == \E k \in DOMAIN ppsz_exts : LowerStr(ext) = ppsz_exts[k]

\* C10: is_slave returns true for a name exactly when the text after its last
\* '.' is not empty and equals, ignoring letter case, a complete entry of the
\* subtitle or audio table; the kind is that of the first table that holds it.
C10_SlaveIffListed ==
    dmx.classified.name # <<>> =>
        LET name == dmx.classified.name
            dot  == strrchr(name, ".")
            ext  == From(name, dot + 1)
        IN  /\ dmx.classified.slave
                  <=> (/\ dot # 0
                       /\ ext # <<>>
                       /\ Listed(ext, ppsz_sub_exts) \/ Listed(ext, ppsz_audio_exts))
            /\ dmx.classified.slave
                  => dmx.classified.i_type =
                        IF Listed(ext, ppsz_sub_exts) THEN "SLAVE_TYPE_SPU"
                        ELSE "SLAVE_TYPE_AUDIO"

(***************************************************************************)
(* Properties of the conflict pass.                                        *)
(***************************************************************************)
\* the extension of a candidate's path, lower-cased
ExtOf(p_sub) == LowerStr(From(p_sub.psz_path, strrchr(p_sub.psz_path, ".") + 1))

\* the path of a candidate without its extension
StemOf(p_sub) == SubSeq(p_sub.psz_path, 1, strrchr(p_sub.psz_path, ".") - 1)

HasExt(p_sub, ext) ==
    ~p_sub.null /\ strrchr(p_sub.psz_path, ".") # 0 /\ ExtOf(p_sub) = ext

\* C6: when the list holds X.sub and X.idx (same directory, same base name,
\* equal priority), in either order, then after the conflict pass X.sub is
\* marked rejected and X.idx is not.
C6_SubYieldsToIdx ==
    Returned(1) =>
        \A a, b \in DOMAIN det[1].p_result :
            LET p_sub == det[1].p_result[a]
                p_idx == det[1].p_result[b]
            IN  (/\ HasExt(p_sub, s_sub)
                 /\ HasExt(p_idx, s_idx)
                 /\ StemOf(p_sub) = StemOf(p_idx)
                 /\ p_sub.i_priority = p_idx.i_priority)
                    => p_sub.b_rejected /\ ~p_idx.b_rejected

\* C6 witness: the call returned with movie.idx on the list before movie.sub.
C6_Witness ==
    /\ Returned(1)
    /\ \E a, b \in DOMAIN det[1].p_result :
          /\ b < a
          /\ HasExt(det[1].p_result[a], s_sub)
          /\ HasExt(det[1].p_result[b], s_idx)
          /\ StemOf(det[1].p_result[a]) = StemOf(det[1].p_result[b])
          /\ det[1].p_result[a].b_rejected

\* C7: after the conflict pass a candidate with extension cdg, in any letter
\* case, is marked rejected exactly when its priority is below MATCH_ALL.
C7_CdgRule ==
    Returned(1) =>
        \A a \in DOMAIN det[1].p_result :
            LET p_sub == det[1].p_result[a]
            IN  HasExt(p_sub, s_cdg) =>
                    (p_sub.b_rejected <=> p_sub.i_priority < SLAVE_PRIORITY_MATCH_ALL)

\* C7 witness: the call returned with movie.CDG (MATCH_ALL) kept and song.cdg
\* (MATCH_NONE) rejected.
C7_Witness ==
    /\ Returned(1)
    /\ \E a, b \in DOMAIN det[1].p_result :
          /\ HasExt(det[1].p_result[a], s_cdg)
          /\ det[1].p_result[a].i_priority = SLAVE_PRIORITY_MATCH_ALL
          /\ ~det[1].p_result[a].b_rejected
          /\ HasExt(det[1].p_result[b], s_cdg)
          /\ det[1].p_result[b].i_priority = SLAVE_PRIORITY_MATCH_NONE
          /\ det[1].p_result[b].b_rejected

(***************************************************************************)
(* Properties of the sort at the end of Demux.                             *)
(***************************************************************************)
\* Demux has returned from its end
DemuxReturned == dmx.pc = "done" /\ dmx.i_ret = "VLC_SUCCESS"

\* the index of the first digit of name, Len(name) + 1 when it has none
RECURSIVE FirstDigit(_, _)
FirstDigit(name, i) ==
    IF i > Len(name) \/ isdigit(name[i]) THEN i ELSE FirstDigit(name, i + 1)

\* the first run of digits of name
RunOf(name) ==
    SubSeq(name, FirstDigit(name, 1), FirstDigit(name, 1) + DigitRun(name, FirstDigit(name, 1)) - 1)

\* name without its first run of digits: what precedes it and what follows it
AroundRun(name) ==
    << Take(name, FirstDigit(name, 1) - 1),
       From(name, FirstDigit(name, 1) + DigitRun(name, FirstDigit(name, 1))) >>

\* the number a run of digits writes
RECURSIVE NumVal(_)
NumVal(run) ==
    IF run = <<>> THEN 0
    ELSE 10 * NumVal(Take(run, Len(run) - 1))
           + (CHOOSE d \in 0..9 : DigitChars[d + 1] = run[Len(run)])

\* two names that differ in their run of digits only
DifferInRunOnly(a, b) ==
    /\ RunOf(a) # <<>> /\ RunOf(b) # <<>>
    /\ AroundRun(a) = AroundRun(b)
    /\ RunOf(a) # RunOf(b)

NoLeadingZero(run) == Len(run) = 1 \/ run[1] # "0"

VersionSorted ==
    /\ DemuxReturned
    /\ ~dmx.b_dir_sorted
    /\ dmx.psz_sort # NULL
    /\ strcasecmp(dmx.psz_sort, << "v", "e", "r", "s", "i", "o", "n" >>) = 0

C12_NoneKeepsOrder ==
    (/\ DemuxReturned
     /\ dmx.psz_sort # NULL
     /\ strcasecmp(dmx.psz_sort, << "n", "o", "n", "e" >>) = 0)
        => /\ [ k \in DOMAIN dmx.children |-> dmx.children[k].p_item ] = dmx.appended
           /\ dmx.applied = "NULL"

\* C12 witness: Demux returned under "none", on a stream that is not sorted,
\* with the file t9.mkv before the directory t10.mkv, an order neither comparator
\* would leave.
C12_Witness ==
    /\ DemuxReturned
    /\ ~dmx.b_dir_sorted
    /\ dmx.psz_sort = << "n", "o", "n", "e" >>
    /\ Len(dmx.children) = 2
    /\ dmx.children[1].p_item = Item(NumberedName(<< "9" >>), "ITEM_TYPE_FILE")
    /\ dmx.children[2].p_item = Item(NumberedName(<< "1", "0" >>), "ITEM_TYPE_DIRECTORY")

(***************************************************************************)
(* Properties of the scoring step: blank primary names and the extra       *)
(* directories.                                                            *)
(***************************************************************************)
\* the normalized name of a directory entry
TrimmedName(name) == strcpy_trim(strcpy_strip_ext(name))

\* C13: when the base name of the primary file normalizes to the empty string,
\* a candidate is scored MATCH_ALL exactly when its normalized name is empty,
\* and every other candidate is scored as "name not found": MATCH_NONE in the
\* primary directory, no match elsewhere.
C13_BlankPrimary ==
    (/\ det[1].scored.name # <<>>
     /\ ~NonBlank(PrimaryBase(1)))
        => det[1].scored.prio =
              IF TrimmedName(det[1].scored.name) = <<>> THEN SLAVE_PRIORITY_MATCH_ALL
              ELSE IF det[1].scored.j = -1 THEN SLAVE_PRIORITY_MATCH_NONE
              ELSE SLAVE_PRIORITY_NONE

\* the candidates call c has appended, without the failed allocations
AppendedSubs(c) ==
    { det[c].p_result[k] :
        k \in { n \in DOMAIN det[c].p_result :
                  n > Len(det[c].on_entry) /\ ~det[c].p_result[n].null } }

\* the path was built for an entry of an extra directory: psz_dir is not f_dir
InExtraDir(c, path) == Take(path, strrchr(path, "/") - 1) # det[c].f_dir

\* the normalized name holds the normalized name of the primary file
HoldsPrimary(c, name) == strstr(TrimmedName(name), det[c].f_fname_trim) # 0

\* C14 as stated: at any threshold but 0, no candidate is appended for a file
\* of an extra directory whose normalized name does not hold the primary's;
\* such a file of the primary directory is scored MATCH_NONE.
C14_NoStrayFromExtraDir ==
    /\ det[1].i_fuzzy # 0
          => \A p_sub \in AppendedSubs(1) :
                InExtraDir(1, p_sub.psz_path) => HoldsPrimary(1, FileOf(p_sub.psz_path))
    /\ (/\ det[1].scored.name # <<>>
        /\ det[1].scored.j = -1
        /\ ~HoldsPrimary(1, det[1].scored.name))
          => det[1].scored.prio = SLAVE_PRIORITY_MATCH_NONE

\* C14 amended: the same at any threshold above 0.
C14_NoStrayAtPositiveThreshold ==
    /\ det[1].i_fuzzy > 0
          => \A p_sub \in AppendedSubs(1) :
                InExtraDir(1, p_sub.psz_path) => HoldsPrimary(1, FileOf(p_sub.psz_path))
    /\ (/\ det[1].scored.name # <<>>
        /\ det[1].scored.j = -1
        /\ ~HoldsPrimary(1, det[1].scored.name))
          => det[1].scored.prio = SLAVE_PRIORITY_MATCH_NONE

\* C14 witness: at the threshold MATCH_NONE the call has read both entries of
\* the extra directory s, last song.srt, and appended movie.srt alone.
C14_Witness ==
    /\ det[1].i_fuzzy = SLAVE_PRIORITY_MATCH_NONE
    /\ det[1].scored.name = WithExt(s_song, s_srt)
    /\ det[1].scored.j = 0
    /\ det[1].scored.prio = SLAVE_PRIORITY_NONE
    /\ AppendedSubs(1) # {}
    /\ \A p_sub \in AppendedSubs(1) : FileOf(p_sub.psz_path) = WithExt(s_movie, s_srt)
    /\ Returned(1)

(***************************************************************************)
(* Properties of the filters on the entries and on the primary path.       *)
(***************************************************************************)
\* the directory a path was built for: what precedes the '/' before the name
PszDirOf(path) == Take(path, strrchr(path, "/") - 1)

\* the path names the primary file of call c: the same name in the directory
\* of the primary file
IsPrimary(c, path) ==
    /\ FileOf(path) = FileOf(det[c].psz_fname)
    /\ Resolve(PszDirOf(path)) = Resolve(det[c].f_dir)

\* the path names a regular file of the directory it was built for
IsRegular(path) ==
    /\ Resolve(PszDirOf(path)) \in DirIds
    /\ File(FileOf(path)) \in fs[Resolve(PszDirOf(path))].entries

\* C15: subtitles_Detect never appends the primary file itself, also when it
\* has a subtitle extension and lies in a scanned directory, and never appends
\* an entry that is no regular file.
C15_NeitherSelfNorIrregular ==
    \A p_sub \in AppendedSubs(1) :
        /\ ~IsPrimary(1, p_sub.psz_path)
        /\ IsRegular(p_sub.psz_path)

\* C16: "." and ".." are always skipped and a name that begins with '.' is
\* skipped exactly when show-hiddenfiles is not set, in Demux and in
\* subtitles_Detect, where a hidden subtitle file is then collected.
C16_HiddenFollowsSetting ==
    /\ dmx.last.name # <<>>
          => (dmx.last.skipped
                <=> \/ dmx.last.name \in { << "." >>, s_dotdot }
                    \/ (dmx.last.name[1] = "." /\ ~dmx.b_show_hiddenfiles))
    /\ (/\ Returned(1)
        /\ ~det[1].enomem
        /\ det[1].i_fuzzy <= SLAVE_PRIORITY_MATCH_NONE)
          => \A e \in fs["D"].entries :
                (/\ e.name[1] = "."
                 /\ e.name # s_dotdot
                 /\ e.reg
                 /\ subtitles_Filter(e.name) # 0)
                    => (det[1].b_show_hiddenfiles
                          <=> \E p_sub \in AppendedSubs(1) : FileOf(p_sub.psz_path) = e.name)

\* the primary path of call c is missing, or has no separator, or has nothing
\* after its last separator
NoBaseName(c) ==
    \/ det[c].psz_fname = NULL
    \/ strrchr(det[c].psz_fname, "/") = 0
    \/ strrchr(det[c].psz_fname, "/") = Len(det[c].psz_fname)

\* C17: for such a primary path subtitles_Detect opens no directory and leaves
\* the list as it was.
C17_NoBaseNameNoScan ==
    (det[1].pc # "idle" /\ NoBaseName(1))
        => /\ det[1].opened = <<>>
           /\ det[1].p_result = det[1].on_entry

(***************************************************************************)
(* Properties of a call that loses an allocation or a directory.           *)
(***************************************************************************)
\* the conflict pass of call c died reading through a NULL element of the list
NullDereferenced(c) ==
    LET r == det[c]
    IN  /\ r.pc = "crash"
        /\ \/ r.p_result[r.i + 1].null
           \/ (r.j_inner < Len(r.p_result) /\ r.p_result[r.j_inner + 1].null)

\* C19: whatever allocation fails while a candidate is built, the list never
\* holds a NULL element nor an element with a NULL or empty path, and the
\* conflict pass never dereferences a missing candidate.
C19_FailedCandidateDropped ==
    /\ \A k \in 1..Len(det[1].p_result) :
          /\ ~det[1].p_result[k].null
          /\ det[1].p_result[k].psz_path \notin { NULL, <<>> }
    /\ ~NullDereferenced(1)

\* the directories sub-autodetect-path names for call c, as paths_to_list
\* builds them when every allocation is served
Configured(c) ==
    IF det[c].psz_path = NULL THEN <<>>
    ELSE paths_to_list(det[c].f_dir, det[c].psz_path, 0)

\* the directories call c has to scan, in order: the primary file's, then the
\* configured ones that are not the primary file's by name; of these the ones
\* that can be opened
ToScan(c) ==
    LET listed == << det[c].f_dir >>
                    \o SelectSeq(Configured(c), LAMBDA d : strcmp(d, det[c].f_dir) # 0)
        there  == SelectSeq(listed, LAMBDA d : vlc_opendir(d) # "NULL")
    IN  [ k \in 1..Len(there) |-> Resolve(there[k]) ]

ScanOver(c) == det[c].pc \in { "conflict", "done", "crash" } /\ det[c].f_dir # <<>>

C20_PrimaryDirScannedOnce ==
    \A a, b \in 1..Len(det[1].opened) :
        a # b => det[1].opened[a] # det[1].opened[b]

(***************************************************************************)
(* Properties of the list subtitles_Detect returns.                        *)
(***************************************************************************)
\* C21: two calls with the same primary file, threshold and directory, in
\* which no allocation fails, return the same list: the same candidates with
\* the same priorities and rejected flags in the same order, whatever order
\* vlc_readdir returned the entries in.
C21_OrderIndependent ==
    (/\ Returned(1) /\ ~det[1].enomem
     /\ Returned(2) /\ ~det[2].enomem)
        => det[1].p_result = det[2].p_result

\* the conflict pass of call c has examined candidate k last: r.i counts the
\* candidates it is through with
Examined(c, k) ==
    /\ det[c].pc \in { "conflict", "done" }
    /\ k = det[c].i
    /\ k >= 1

\* C22: a .sub candidate the conflict pass marks rejected, its inner scan
\* having stopped inside the list, was stopped by an .idx whose path without
\* the extension is the .sub's path without the extension, ignoring case; an
\* .idx whose name only starts with the .sub's base name (movie.en.idx for
\* movie.sub) does not reject it.
C22_SubRejectedByItsIdxOnly ==
    \A k \in DOMAIN det[1].p_result :
        LET p_sub == det[1].p_result[k]
        IN  (/\ Examined(1, k)
             /\ HasExt(p_sub, s_sub)
             /\ p_sub.b_rejected /\ ~det[1].collected[k].b_rejected
             /\ det[1].j_inner < Len(det[1].p_result))
                => LET p_sub_inner == det[1].p_result[det[1].j_inner + 1]
                   IN  /\ HasExt(p_sub_inner, s_idx)
                       /\ strcasecmp(StemOf(p_sub), StemOf(p_sub_inner)) = 0

\* C23: the conflict pass does not die, and the index of its inner scan stays
\* below the number of candidates, also for a .sub without an .idx.
C23_InnerScanInBounds ==
    (ScanOver(1) /\ ~det[1].enomem /\ det[1].p_result # <<>>)
        => /\ det[1].j_inner < Len(det[1].p_result)
           /\ det[1].pc # "crash"

\* C24: the conflict pass leaves the length of the list, the order of the
\* candidates and their paths and priorities as it found them, and marks
\* rejected only candidates with the extension sub or cdg.
C24_OnlyFlagsChange ==
    ScanOver(1) =>
        /\ Len(det[1].p_result) = Len(det[1].collected)
        /\ \A k \in DOMAIN det[1].p_result :
              LET p_sub == det[1].p_result[k]
                  was   == det[1].collected[k]
              IN  /\ p_sub.null = was.null
                  /\ p_sub.psz_path = was.psz_path
                  /\ p_sub.i_priority = was.i_priority
                  /\ (p_sub.b_rejected /\ ~was.b_rejected)
                        => (HasExt(p_sub, s_sub) \/ HasExt(p_sub, s_cdg))
                  /\ was.b_rejected => p_sub.b_rejected

\* the call returned, having rejected movie.sub and song.cdg (of the list on
\* entry) and kept the .idx between them
C24_Witness ==
    /\ Returned(1)
    /\ Len(det[1].p_result) = 3
    /\ \E a, b \in DOMAIN det[1].p_result :
          /\ HasExt(det[1].p_result[a], s_sub) /\ det[1].p_result[a].b_rejected
          /\ ~det[1].collected[a].b_rejected
          /\ HasExt(det[1].p_result[b], s_idx) /\ ~det[1].p_result[b].b_rejected
    /\ det[1].p_result[1].b_rejected /\ ~det[1].collected[1].b_rejected

(***************************************************************************)
(* Properties of attach_slaves and of the slaves Demux creates.            *)
(***************************************************************************)
\* C25: in attach_slaves no slave is scored, attached or deleted after
\* input_item_slave_Delete was called on it, and none is deleted twice.
C25_NoUseAfterDelete ==
    /\ dmx.pc # "crash"
    /\ ~dmx.scored.stale
    /\ \A k \in DOMAIN dmx.p_slaves : dmx.p_slaves[k].n_delete <= 1

\* attach_slaves has run through its loops with a threshold other than 0 and
\* every allocation served
Attached ==
    /\ dmx.pc \in { "sort", "done" }
    /\ dmx.i_ret = "VLC_SUCCESS"
    /\ dmx.i_fuzzy \in FuzzyValues \ { 0 }
    /\ ~dmx.enomem

\* the score of slave k of the array against child i
ScoreOf(i, k) ==
    calculate_slave_priority(dmx.children[i].p_item.psz_uri, dmx.p_slaves[k].psz_uri, FALSE)

SlavesOf(i) == Range(dmx.children[i].slaves)

\* C26: after attach_slaves a slave is attached to an item exactly when its
\* score against the item reaches the threshold, and the priority an attached
\* slave carries is its score against the item it is attached to.
C26_AttachedCarriesItsScore ==
    Attached =>
        \A i \in DOMAIN dmx.children, k \in DOMAIN dmx.p_slaves :
            /\ k \in SlavesOf(i) <=> ScoreOf(i, k) >= dmx.i_fuzzy
            /\ k \in SlavesOf(i) => dmx.p_slaves[k].i_priority = ScoreOf(i, k)

\* C27: when Demux has returned, with success or not, every slave it created
\* is attached to an item or was deleted.
C27_NoSlaveLeftOver ==
    dmx.pc = "done" =>
        /\ \A k \in DOMAIN dmx.p_slaves :
              \/ dmx.p_slaves[k].freed
              \/ \E i \in DOMAIN dmx.children : k \in SlavesOf(i)
        /\ \A k \in DOMAIN dmx.cleared : dmx.cleared[k].freed

(***************************************************************************)
(* Properties of the read loop of Demux.                                   *)
(***************************************************************************)
\* the text after the last '.' of name is, ignoring letter case, a complete
\* entry of the subtitle or audio table
InSlaveTables(name) ==
    LET dot == strrchr(name, ".")
        ext == From(name, dot + 1)
    IN  /\ dot # 0
        /\ ext # <<>>
        /\ Listed(ext, ppsz_sub_exts) \/ Listed(ext, ppsz_audio_exts)

\* C28: the entry Demux read last, if it was not skipped as hidden, has an
\* extension that is in neither table and is not ignored, and its allocation
\* was served, is the last item appended to the node; an entry classified as
\* a slave is not among the items appended.
C28_UnlistedIsOrdinary ==
    (dmx.last.name # <<>> /\ ~dmx.last.skipped) =>
        /\ (/\ ~InSlaveTables(dmx.last.name)
            /\ ~has_ext(dmx.psz_ignored_exts, dmx.last.name)
            /\ dmx.i_ret = "VLC_SUCCESS")
              => /\ dmx.appended # <<>>
                 /\ dmx.appended[Len(dmx.appended)].psz_name = dmx.last.name
        /\ dmx.classified.slave
              => \A k \in DOMAIN dmx.appended :
                    dmx.appended[k].psz_name # dmx.classified.name

(***************************************************************************)
(* Properties of the comparators.                                          *)
(***************************************************************************)
s_none == << "n", "o", "n", "e" >>

\* in the order Demux returned, no directory comes after an item of another type
DirsFirst ==
    \A x, y \in DOMAIN dmx.children :
        (/\ x < y
         /\ dmx.children[y].p_item.i_type = "ITEM_TYPE_DIRECTORY")
            => dmx.children[x].p_item.i_type = "ITEM_TYPE_DIRECTORY"

\* both comparators return what compar_type returns when that is not 0
TypeDecides ==
    \A x, y \in DOMAIN dmx.children :
        LET p1 == dmx.children[x].p_item
            p2 == dmx.children[y].p_item
        IN  compar_type(p1, p2) # 0
                => /\ compar_collate(p1, p2) = compar_type(p1, p2)
                   /\ compar_version(p1, p2) = compar_type(p1, p2)

\* the stream reported itself sorted: no comparator applied, the children are
\* in the order they were appended
Untouched ==
    /\ dmx.applied = "NULL"
    /\ [ k \in DOMAIN dmx.children |-> dmx.children[k].p_item ] = dmx.appended

SidecarScore(f_fname, name) ==
    DetectPrio(name, strcpy_trim(strcpy_strip_ext(f_fname)), -1)

\* what calculate_slave_priority gives the two files with its allocations served
BatchScore(f_fname, name) ==
    calculate_slave_priority(s_d \o f_fname, s_d \o name, FALSE)

\* C30: a candidate of the primary file's directory gets the same priority
\* from the scoring step of subtitles_Detect and from calculate_slave_priority.
C30_ScorersAgree ==
    /\ (det[1].scored.name # <<>> /\ det[1].scored.j = -1)
          => det[1].scored.prio
               = BatchScore(FileOf(det[1].psz_fname), det[1].scored.name)
    /\ (dmx.scored.item # <<>> /\ ~dmx.scored.oom /\ ~dmx.scored.stale)
          => dmx.scored.prio
               = SidecarScore(dmx.scored.item, FileOf(dmx.scored.slave))

====
